---- MODULE Spec2Model ----
(***************************************************************************)
(* Model of md_spa/msd.py: the windowed region search find_diffusivity     *)
(* and the single-window primitive diffusivity.                            *)
(*                                                                         *)
(* Floating-point values are modelled as exact rationals <<num, den>> with *)
(* den > 0; NaN is <<0, 0>> and -inf is <<-1, 0>>.  np.log is a fixed-point *)
(* table (one decimal digit).  The standard error, a square root, is       *)
(* carried as its square.  The least-squares formulas are those of         *)
(* scipy.stats.linregress, evaluated exactly.                              *)
(***************************************************************************)
EXTENDS Integers, Sequences, FiniteSets, TLC

\* ------------------------------------------------------------------ bounds
\* Longest input series.
MaxN == 5
\* Largest requested minimum window size.
MaxMinNpts == 5

\* Default spatial dimension (keyword dim of find_diffusivity / diffusivity).
Dim == 3

\* ------------------------------------------------------- float arithmetic
NaN == <<0, 0>>
NegInf == <<-1, 0>>
R(n) == <<n, 1>>

isnan(a) == a = NaN
IsFinite(a) == a[2] > 0

Abs(n) == IF n < 0 THEN -n ELSE n
Min(a, b) == IF a < b THEN a ELSE b
Max(a, b) == IF a > b THEN a ELSE b

\* IEEE comparisons: anything compared with NaN is False.
Lt(a, b) == IsFinite(a) /\ IsFinite(b) /\ a[1] * b[2] < b[1] * a[2]
Le(a, b) == IsFinite(a) /\ IsFinite(b) /\ a[1] * b[2] <= b[1] * a[2]
Gt(a, b) == Lt(b, a)
Ge(a, b) == Le(b, a)

\* np.abs(a - 1.0)
AbsMinusOne(a) == IF IsFinite(a) THEN <<Abs(a[1] - a[2]), a[2]>> ELSE NaN

\* a / k for a positive integer k (NaN stays NaN).
DivInt(a, k) == <<a[1], a[2] * k>>

\* 10 * ln(x), rounded, for x = 1 .. 24.
LnTable ==
  <<0, 7, 11, 14, 16, 18, 19, 21, 22, 23, 24, 25,
    26, 26, 27, 28, 28, 29, 29, 30, 30, 31, 31, 32>>

\* np.log of a difference x: NaN below zero, -inf at zero.
np_log(x) ==
  IF x < 0 THEN NaN
  ELSE IF x = 0 THEN NegInf
  ELSE R(LnTable[x])

\* ------------------------------------------------------ Python sequences
\* s[a:b] for a >= 0; b may be negative (counted from the end).
PySlice(s, a, b) ==
  LET n     == Len(s)
      start == Min(a, n)
      stop  == IF b < 0 THEN Max(n + b, 0) ELSE Min(b, n)
  IN  [k \in 1 .. Max(stop - start, 0) |-> s[start + k]]

\* list(range(a, b, s)) for s > 0.
PyRange(a, b, s) ==
  LET cnt == IF b > a THEN (b - a + s - 1) \div s ELSE 0
  IN  [k \in 1 .. cnt |-> a + (k - 1) * s]

RECURSIVE SumSeq(_)
SumSeq(s) == IF s = <<>> THEN 0 ELSE Head(s) + SumSeq(Tail(s))

\* ---------------------------------------------------------- linregress
\* scipy.stats.linregress(x, y) on finite integer data, Len(x) = Len(y).
\* err = "ValueError" on empty input.  rvalue2 is rvalue ** 2; stderr2 is
\* stderr ** 2.
linregress(x, y) ==
  LET n   == Len(x)
      Sx  == SumSeq(x)
      Sy  == SumSeq(y)
      Sxx == SumSeq([k \in 1 .. n |-> x[k] * x[k]])
      Syy == SumSeq([k \in 1 .. n |-> y[k] * y[k]])
      Sxy == SumSeq([k \in 1 .. n |-> x[k] * y[k]])
      A   == n * Sxy - Sx * Sy
      B   == n * Sxx - Sx * Sx
      C   == n * Syy - Sy * Sy
  IN  IF n = 0
      THEN [err |-> "ValueError", slope |-> NaN, intercept |-> NaN,
            rvalue2 |-> NaN, stderr2 |-> NaN]
      ELSE [err       |-> "none",
            slope     |-> IF B = 0 THEN NaN ELSE <<A, B>>,
            intercept |-> IF B = 0 THEN NaN ELSE <<Sy * B - A * Sx, n * B>>,
            rvalue2   |-> IF B = 0 \/ C = 0 THEN R(0) ELSE <<A * A, B * C>>,
            stderr2   |-> IF B = 0 THEN NaN
                          ELSE IF n = 2 THEN R(0)
                          ELSE <<B * C - A * A, B * B * (n - 2)>>]

\* linregress when some y is NaN or -inf: every statistic that reads y is NaN,
\* except that rvalue is set to 0.0 when the x values have no spread.
linregress_nonfinite(x) ==
  LET n  == Len(x)
      B  == n * SumSeq([k \in 1 .. n |-> x[k] * x[k]]) - SumSeq(x) * SumSeq(x)
  IN  [err |-> "none", slope |-> NaN, intercept |-> NaN,
       rvalue2 |-> IF B = 0 THEN R(0) ELSE NaN, stderr2 |-> NaN]

\* ----------------------------------------------------------- diffusivity
\* diffusivity(time, msd, dim=dim): the fit of one window.
diffusivity(time, msd, dim) ==
  IF Len(time) = 0
  THEN [err |-> "IndexError", d |-> NaN, se |-> NaN, exp |-> NaN,
        icpt |-> NaN, r2 |-> NaN]
  ELSE
    LET m       == Len(time) - 1
        t_log   == [k \in 1 .. m |-> np_log(time[k + 1] - time[1])]
        msd_log == [k \in 1 .. m |-> np_log(msd[k + 1] - msd[1])]
        finite  == \A k \in 1 .. m : IsFinite(msd_log[k])
        xs      == [k \in 1 .. m |-> t_log[k][1]]
        loglog  == IF m = 0 THEN linregress(<<>>, <<>>)
                   ELSE IF finite
                        THEN linregress(xs, [k \in 1 .. m |-> msd_log[k][1]])
                        ELSE linregress_nonfinite(xs)
        lin     == linregress(time, msd)
    IN  IF loglog.err # "none"
        THEN [err |-> loglog.err, d |-> NaN, se |-> NaN, exp |-> NaN,
              icpt |-> NaN, r2 |-> NaN]
        ELSE [err  |-> "none",
              d    |-> DivInt(lin.slope, 2 * dim),
              se   |-> DivInt(lin.stderr2, 4 * dim * dim),
              exp  |-> loglog.slope,
              icpt |-> lin.intercept,
              r2   |-> loglog.rvalue2]

\* ------------------------------------------------------------- the call
VARIABLES
  args,       \* the arguments of the call, as passed
  time,       \* local time (truncated and clipped)
  msd,        \* local msd (truncated and clipped)
  min_Npts,   \* local min_Npts (possibly lowered)
  best,       \* region record: closest exponent to 1
  longest,    \* region record: longest acceptable window
  scan,       \* windows <<npts, i>> the two loops have still to visit
  evaluated,  \* windows <<npts, i>> handed to diffusivity so far
  warned,     \* warnings.warn was called
  pc,         \* "start", "scan", "done" or "error"
  err,        \* the exception raised, or "none"
  ret         \* the returned pair <<best, longest>>, or <<>>

vars == <<args, time, msd, min_Npts, best, longest, scan, evaluated,
          warned, pc, err, ret>>

\* A bound of the bounds tuple: None, NaN, or a number.
None == [kind |-> "None", val |-> 0]
NaNBound == [kind |-> "NaN", val |-> 0]
Num(v) == [kind |-> "num", val |-> v]

\* best = np.array([np.nan for x in range(7)])
NaNRecord == [k \in 1 .. 7 |-> NaN]

\* Field positions of a region record (1-based).
F_D == 1
F_SE == 2
F_T0 == 3
F_T1 == 4
F_EXP == 5
F_ICPT == 6
F_NPTS == 7

\* -------------------------------------------------------------- inputs
\* time: strictly increasing, 1, 3, 5, ...
TimeGrid(n) == [k \in 1 .. n |-> 2 * k - 1]

Incs == {0, 1, 2}

\* msd: starts at 0 and grows by a step of Incs per sample.
MsdOf(inc) == [k \in 1 .. Len(inc) + 1 |-> SumSeq(SubSeq(inc, 1, k - 1))]
MsdSeries(n) ==
  IF n = 0 THEN {<<>>} ELSE {MsdOf(inc) : inc \in [1 .. n - 1 -> Incs]}

MinExps == {<<991, 1000>>, <<1, 2>>}
MinR2s == {<<97, 100>>}
Skips == {1, 2}
UseFracs == {<<1, 1>>, <<1, 2>>}
BoundsSet ==
  {<<None, None>>, <<NaNBound, NaNBound>>, <<Num(3), NaNBound>>,
   <<Num(99), None>>, <<None, Num(6)>>, <<None, Num(0)>>,
   <<Num(2), Num(8)>>}

Args ==
  UNION {[time : {TimeGrid(n)}, msd : MsdSeries(n), min_exp : MinExps,
          min_Npts : 1 .. MaxMinNpts, skip : Skips, min_R2 : MinR2s,
          use_frac : UseFracs, bounds : BoundsSet, dim : {Dim}]
         : n \in 0 .. MaxN}

\* ------------------------------------------------------- preprocessing
\* Mutant of Truncate: the sample count is rounded up.
TruncateRoundUp(s, n, use_frac) ==
  PySlice(s, 0, (n * use_frac[1] + use_frac[2] - 1) \div use_frac[2])

\* s[:int(len(time) * use_frac)]
Truncate(s, n, use_frac) == PySlice(s, 0, (n * use_frac[1]) \div use_frac[2])

\* bounds[k] is not None and not np.isnan(bounds[k])
Given(b) == b.kind = "num"

MinOf(S) == CHOOSE x \in S : \A y \in S : x <= y

\* Mutant of ClipLower: a lower bound above every sample empties the series
\* instead of raising.
ClipLowerNoRaise(t, m, b) ==
  IF ~Given(b) THEN [err |-> "none", time |-> t, msd |-> m]
  ELSE LET inds == {k \in 0 .. Len(t) - 1 : t[k + 1] > b.val}
           ind  == IF inds # {} THEN MinOf(inds) ELSE Len(t)
       IN  [err  |-> "none",
            time |-> PySlice(t, ind, Len(t)),
            msd  |-> PySlice(m, ind, Len(m))]

\* Lower bound: keep from the first sample with time > bounds[0].
ClipLower(t, m, b) ==
  IF ~Given(b) THEN [err |-> "none", time |-> t, msd |-> m]
  ELSE LET inds == {k \in 0 .. Len(t) - 1 : t[k + 1] > b.val}
       IN  IF inds # {}
           THEN [err  |-> "none",
                 time |-> PySlice(t, MinOf(inds), Len(t)),
                 msd  |-> PySlice(m, MinOf(inds), Len(m))]
           ELSE [err |-> "ValueError", time |-> t, msd |-> m]

\* Upper bound: cut at inds[0], the first sample with time < bounds[1].
ClipUpper(t, m, b) ==
  IF ~Given(b) THEN [err |-> "none", time |-> t, msd |-> m]
  ELSE LET inds == {k \in 0 .. Len(t) - 1 : t[k + 1] < b.val}
       IN  IF inds # {}
           THEN [err  |-> "none",
                 time |-> PySlice(t, 0, MinOf(inds)),
                 msd  |-> PySlice(m, 0, MinOf(inds))]
           ELSE [err |-> "ValueError", time |-> t, msd |-> m]

\* Lines 393-410: use_frac, then the lower bound, then the upper bound.
Clip(a) ==
  LET n  == Len(a.time)
      m1 == Truncate(a.msd, n, a.use_frac)
      t1 == Truncate(a.time, n, a.use_frac)
      lo == ClipLower(t1, m1, a.bounds[1])
      hi == ClipUpper(lo.time, lo.msd, a.bounds[2])
  IN  IF lo.err # "none" THEN lo ELSE hi

\* Lines 412-414.
ShrinkMinNpts(n_min, n) == IF n_min > n THEN n - 1 ELSE n_min

\* The windows of the two nested range loops, in the order visited.
RECURSIVE WindowsOf(_, _, _)
WindowsOf(sizes, n, skip) ==
  IF sizes = <<>> THEN <<>>
  ELSE LET npts == Head(sizes)
           offs == PyRange(0, n - npts, skip)
       IN  [k \in 1 .. Len(offs) |-> <<npts, offs[k]>>]
           \o WindowsOf(Tail(sizes), n, skip)

ScanOrder(n_min, n, skip) == WindowsOf(PyRange(n_min, n, skip), n, skip)

\* ------------------------------------------------------------ the scan
\* time[i:(i+npts)]
Window(s, w) == PySlice(s, w[2], w[2] + w[1])

\* Mutant of RegionRecord: the end of the interval is taken one sample early.
RegionRecordShortEnd(fit, t_tmp, npts) ==
  <<fit.d, fit.se, R(t_tmp[1]), R(t_tmp[Len(t_tmp) - 1]), fit.exp, fit.icpt,
    R(npts)>>

\* np.array([d_tmp, stder_tmp, t_tmp[0], t_tmp[-1], exp_tmp, intercept, npts])
RegionRecord(fit, t_tmp, npts) ==
  <<fit.d, fit.se, R(t_tmp[1]), R(t_tmp[Len(t_tmp)]), fit.exp, fit.icpt,
    R(npts)>>

\* r2_tmp > min_R2
PassesGate(fit, min_R2) == Gt(fit.r2, min_R2)

\* Mutant of UpdateBest: the exponents are compared without np.abs.
UpdateBestNoAbs(b, fit, t_tmp, npts) ==
  IF Lt(<<fit.exp[1] - fit.exp[2], fit.exp[2]>>,
        <<b[F_EXP][1] - b[F_EXP][2], b[F_EXP][2]>>) \/ isnan(b[F_EXP])
  THEN RegionRecord(fit, t_tmp, npts)
  ELSE b

\* Mutant of UpdateBest: a window exactly as close to 1 as best replaces it.
UpdateBestOnTie(b, fit, t_tmp, npts) ==
  IF Le(AbsMinusOne(fit.exp), AbsMinusOne(b[F_EXP])) \/ isnan(b[F_EXP])
  THEN RegionRecord(fit, t_tmp, npts)
  ELSE b

\* Lines 425-426.
UpdateBest(b, fit, t_tmp, npts) ==
  IF Lt(AbsMinusOne(fit.exp), AbsMinusOne(b[F_EXP])) \/ isnan(b[F_EXP])
  THEN RegionRecord(fit, t_tmp, npts)
  ELSE b

\* Mutant of UpdateLongest: a later winner overwrites the fit and the point
\* count but leaves the time interval of the previous one.
UpdateLongestStaleInterval(l, fit, t_tmp, npts, min_exp) ==
  IF (Ge(fit.exp, min_exp) /\ Le(l[F_NPTS], R(npts))) \/ isnan(l[F_EXP])
  THEN IF isnan(l[F_EXP])
       THEN RegionRecord(fit, t_tmp, npts)
       ELSE IF Lt(l[F_NPTS], R(npts))
               \/ Gt(AbsMinusOne(l[F_EXP]), AbsMinusOne(fit.exp))
            THEN <<fit.d, fit.se, l[F_T0], l[F_T1], fit.exp, fit.icpt,
                   R(npts)>>
            ELSE l
  ELSE l

\* Mutant of UpdateLongest: the np.isnan(longest[4]) escapes are left out.
UpdateLongestNoSentinel(l, fit, t_tmp, npts, min_exp) ==
  IF Ge(fit.exp, min_exp) /\ Le(l[F_NPTS], R(npts))
  THEN IF Lt(l[F_NPTS], R(npts))
          \/ Gt(AbsMinusOne(l[F_EXP]), AbsMinusOne(fit.exp))
       THEN RegionRecord(fit, t_tmp, npts)
       ELSE l
  ELSE l

\* Lines 428-430.
UpdateLongest(l, fit, t_tmp, npts, min_exp) ==
  IF (Ge(fit.exp, min_exp) /\ Le(l[F_NPTS], R(npts))) \/ isnan(l[F_EXP])
  THEN IF (Lt(l[F_NPTS], R(npts))
           \/ Gt(AbsMinusOne(l[F_EXP]), AbsMinusOne(fit.exp)))
          \/ isnan(l[F_EXP])
       THEN RegionRecord(fit, t_tmp, npts)
       ELSE l
  ELSE l

\* ------------------------------------------------- the other functions
\* Each function below is checked under a specification of its own; while
\* one function runs, the variables of the others keep their idle values.
VARIABLES
  v_fn,        \* input validation: the function called
  v_time,      \* input validation: the time argument
  v_msd,       \* input validation: the msd argument
  v_pc,        \* input validation: "start", "checked" or "error"
  v_err,       \* input validation: the exception raised, or "none"
  v_work,      \* input validation: the processing steps performed so far
  v_use_frac,  \* input validation: the keyword use_frac of the call
  v_loc,       \* input validation: the local arrays time and msd once truncated
  ac_x,        \* autocorrelation: the signal x
  ac_Cx,       \* autocorrelation: the outcome of the call, per mode string
  caller0,     \* msd: the caller's trajectory object as it was at the call
  caller,      \* msd: the caller's trajectory object
  coords,      \* msd: the local name coords (3-D once promoted)
  aliased,     \* msd: coords is the caller's own array, not a copy
  particle_msd,\* msd: the per-particle curves filled so far
  msd_ret,     \* msd: the returned pair, or <<>>
  b_coords,    \* msd, second call on the same particles passed 3-D: coords
  b_particle_msd, \* msd, second call: the per-particle curves filled so far
  batch_ret,   \* msd, second call: the returned pair, or <<>>
  m_pc,        \* msd: "start", "recentre", "particles", "average", "done", "error"
  m_err,       \* msd: the exception raised, or "none"
  e_in,        \* pull_extrema: the arguments and what the splines report
  extrema,     \* pull_extrema: the retained critical points
  e_ret,       \* pull_extrema: the returned triple, or <<>>
  e_pc,        \* pull_extrema: "start", "filtered", "done" or "error"
  e_err,       \* pull_extrema: the exception raised, or "none"
  d_in,        \* debye_waller: what the log-log spline reports at its roots
  d_pos,       \* debye_waller: how many roots the loop has visited
  d_i,         \* debye_waller: the counter i of recorded candidates
  dw,          \* debye_waller: the array dw, then the selected value
  tau,         \* debye_waller: the array tau, then the selected value
  min_value,   \* debye_waller: the array min_value, then the selected value
  d_warned,    \* debye_waller: warnings.warn was called
  d_ret,       \* debye_waller: the returned pair, or <<>>
  d_pc         \* debye_waller: "start", "loop", "select" or "done"

valVars == <<v_fn, v_time, v_msd, v_pc, v_err, v_work, v_use_frac, v_loc>>
acVars == <<ac_x, ac_Cx>>
msdVars ==
  <<caller0, caller, coords, aliased, particle_msd, msd_ret,
    b_coords, b_particle_msd, batch_ret, m_pc, m_err>>
extVars == <<e_in, extrema, e_ret, e_pc, e_err>>
dwVars == <<d_in, d_pos, d_i, dw, tau, min_value, d_warned, d_ret, d_pc>>

ValIdle ==
  /\ v_fn = "none" /\ v_time = <<>> /\ v_msd = <<>>
  /\ v_pc = "idle" /\ v_err = "none" /\ v_work = <<>>
  /\ v_use_frac = <<>> /\ v_loc = <<>>
AcIdle == ac_x = <<>> /\ ac_Cx = <<>>
MsdIdle ==
  /\ caller0 = <<>> /\ caller = <<>> /\ coords = <<>> /\ aliased = FALSE
  /\ particle_msd = <<>> /\ msd_ret = <<>>
  /\ b_coords = <<>> /\ b_particle_msd = <<>> /\ batch_ret = <<>>
  /\ m_pc = "idle" /\ m_err = "none"
ExtIdle ==
  /\ e_in = <<>> /\ extrema = <<>> /\ e_ret = <<>>
  /\ e_pc = "idle" /\ e_err = "none"
DwIdle ==
  /\ d_in = <<>> /\ d_pos = 0 /\ d_i = 0
  /\ dw = <<>> /\ tau = <<>> /\ min_value = <<>>
  /\ d_warned = FALSE /\ d_ret = <<>> /\ d_pc = "idle"
VARIABLES
  c_in,        \* analyze_clustering: cluster_array, ncut and show_plot
  c_i,         \* analyze_clustering: how many frames the loop has handled
  nclusters,   \* analyze_clustering: the largest cluster id
  clusters,    \* analyze_clustering: the cluster sizes of the latest frame
  c_nparticles,\* analyze_clustering: the array nparticles
  cluster_list,\* analyze_clustering: the list of large-cluster sizes per frame
  c_ret,       \* analyze_clustering: the returned pair, or <<>>
  c_pc,        \* analyze_clustering: "start", "frames", "done" or "error"
  c_err        \* analyze_clustering: the exception raised, or "none"

clVars ==
  <<c_in, c_i, nclusters, clusters, c_nparticles, cluster_list, c_ret, c_pc,
    c_err>>
ClIdle ==
  /\ c_in = <<>> /\ c_i = 0 /\ nclusters = 0 /\ clusters = <<>>
  /\ c_nparticles = <<>> /\ cluster_list = <<>> /\ c_ret = <<>>
  /\ c_pc = "idle" /\ c_err = "none"
VARIABLES
  k_in,        \* keypoints2csv: arguments, files, taus of the columns
  titles,      \* keypoints2csv: the local list titles
  additional_entries, \* keypoints2csv: the local name additional_entries
  additional_header,  \* keypoints2csv: the local name additional_header
  flag_add_ent,       \* keypoints2csv: the flag of that name
  flag_add_header,    \* keypoints2csv: the flag of that name
  kwargs_find_diffusivity, \* keypoints2csv: the caller's dictionary
  kwargs_debye_waller,     \* keypoints2csv: the caller's dictionary
  k_i,         \* keypoints2csv: the loop variable i (0 before the loop)
  k_calls,     \* keypoints2csv: the calls made so far, with their keywords
  tmp_data,    \* keypoints2csv: the rows collected so far
  k_written,   \* keypoints2csv: the call of fm.write_csv
  k_pc,        \* keypoints2csv: "start", "flags", "columns", "write", ...
  k_err        \* keypoints2csv: the exception raised, or "none"

kpVars ==
  <<k_in, titles, additional_entries, additional_header, flag_add_ent,
    flag_add_header, kwargs_find_diffusivity, kwargs_debye_waller, k_i,
    k_calls, tmp_data, k_written, k_pc, k_err>>
KpIdle ==
  /\ k_in = <<>> /\ titles = <<>>
  /\ additional_entries = <<>> /\ additional_header = <<>>
  /\ flag_add_ent = FALSE /\ flag_add_header = FALSE
  /\ kwargs_find_diffusivity = <<>> /\ kwargs_debye_waller = <<>>
  /\ k_i = 0 /\ k_calls = <<>> /\ tmp_data = <<>> /\ k_written = <<>>
  /\ k_pc = "idle" /\ k_err = "none"
allVars == <<vars, valVars, acVars, msdVars, extVars, dwVars, clVars, kpVars>>

FdIdle ==
  /\ args = <<>> /\ time = <<>> /\ msd = <<>> /\ min_Npts = 0
  /\ best = <<>> /\ longest = <<>> /\ scan = <<>> /\ evaluated = <<>>
  /\ warned = FALSE /\ pc = "idle" /\ err = "none" /\ ret = <<>>

\* ------------------------------------------------------------- actions
Init ==
  /\ ValIdle /\ AcIdle /\ MsdIdle /\ ExtIdle /\ DwIdle /\ ClIdle /\ KpIdle
  /\ args \in Args
  /\ time = args.time
  /\ msd = args.msd
  /\ min_Npts = args.min_Npts
  /\ best = NaNRecord
  /\ longest = NaNRecord
  /\ scan = <<>>
  /\ evaluated = <<>>
  /\ warned = FALSE
  /\ pc = "start"
  /\ err = "none"
  /\ ret = <<>>

\* Lines 393-418: truncate, clip, lower min_Npts, initialise the records and
\* enter the loops.
Preprocess ==
  /\ pc = "start"
  /\ LET c == Clip(args)
     IN  IF c.err # "none"
         THEN /\ pc' = "error"
              /\ err' = c.err
              /\ UNCHANGED <<time, msd, min_Npts, best, longest, scan, warned>>
         ELSE /\ time' = c.time
              /\ msd' = c.msd
              /\ warned' = (args.min_Npts > Len(c.time))
              /\ min_Npts' = ShrinkMinNpts(args.min_Npts, Len(c.time))
              /\ best' = NaNRecord
              /\ longest' = NaNRecord
              /\ scan' = ScanOrder(min_Npts', Len(c.time), args.skip)
              /\ pc' = "scan"
              /\ err' = "none"
  /\ UNCHANGED <<args, evaluated, ret>>
  /\ UNCHANGED <<valVars, acVars, msdVars, extVars, dwVars, clVars, kpVars>>

\* Lines 419-433: one pass of the inner loop body.
EvalWindow ==
  /\ pc = "scan"
  /\ scan # <<>>
  /\ LET w       == Head(scan)
         npts    == w[1]
         t_tmp   == Window(time, w)
         msd_tmp == Window(msd, w)
         fit     == diffusivity(t_tmp, msd_tmp, args.dim)
     IN  /\ evaluated' = Append(evaluated, w)
         /\ IF fit.err # "none"
            THEN /\ pc' = "error"
                 /\ err' = fit.err
                 /\ UNCHANGED <<best, longest, scan>>
            ELSE /\ scan' = Tail(scan)
                 /\ UNCHANGED <<pc, err>>
                 /\ IF PassesGate(fit, args.min_R2)
                    THEN /\ best' = UpdateBest(best, fit, t_tmp, npts)
                         /\ longest' = UpdateLongest(longest, fit, t_tmp, npts,
                                                     args.min_exp)
                    ELSE UNCHANGED <<best, longest>>
  /\ UNCHANGED <<args, time, msd, min_Npts, warned, ret>>
  /\ UNCHANGED <<valVars, acVars, msdVars, extVars, dwVars, clVars, kpVars>>

\* Lines 435-460: optional plot and printout, then return best, longest.
Return ==
  /\ pc = "scan"
  /\ scan = <<>>
  /\ \E plot \in BOOLEAN :
       IF plot /\ Len(time) = 0
       THEN /\ pc' = "error"
            /\ err' = "IndexError"
            /\ ret' = <<>>
       ELSE /\ pc' = "done"
            /\ err' = "none"
            /\ ret' = <<best, longest>>
  /\ UNCHANGED <<args, time, msd, min_Npts, best, longest, scan, evaluated,
                 warned>>
  /\ UNCHANGED <<valVars, acVars, msdVars, extVars, dwVars, clVars, kpVars>>

Next == Preprocess \/ EvalWindow \/ Return

Spec == Init /\ [][Next]_allVars

\* ================================================================ claims
\* Helpers of the statements below: what the call was given, which windows
\* the scan handed to diffusivity, and what each of them fits to.
EvaluatedSet == {evaluated[k] : k \in 1 .. Len(evaluated)}
FitOf(w) == diffusivity(Window(time, w), Window(msd, w), args.dim)
Passed(w) == FitOf(w).err = "none" /\ Gt(FitOf(w).r2, args.min_R2)
PassedSet == {w \in EvaluatedSet : Passed(w)}
Dist(w) == AbsMinusOne(FitOf(w).exp)
RecOf(w) ==
  <<FitOf(w).d, FitOf(w).se, R(time[w[2] + 1]), R(time[w[2] + w[1]]),
    FitOf(w).exp, FitOf(w).icpt, R(w[1])>>
Qualifying == {w \in PassedSet : Ge(FitOf(w).exp, args.min_exp)}

\* The use_frac prefix of the input, and what the bounds should leave of it.
KeptLen == (Len(args.time) * args.use_frac[1]) \div args.use_frac[2]
AboveLower(k) ==
  Given(args.bounds[1]) => args.time[k] > args.bounds[1].val
BelowUpper(k) ==
  Given(args.bounds[2]) => args.time[k] < args.bounds[2].val
LowerMiss ==
  Given(args.bounds[1]) /\ \A k \in 1 .. KeptLen : ~AboveLower(k)
UpperMiss ==
  Given(args.bounds[2])
  /\ \A k \in 1 .. KeptLen : AboveLower(k) => ~BelowUpper(k)
BoundsMiss == LowerMiss \/ UpperMiss
InBounds == {k \in 1 .. KeptLen : AboveLower(k) /\ BelowUpper(k)}
RECURSIVE Pick(_, _, _)
Pick(s, K, k) ==
  IF k > Len(s) THEN <<>>
  ELSE (IF k \in K THEN <<s[k]>> ELSE <<>>) \o Pick(s, K, k + 1)
Finished == pc \in {"done", "error"}

\* C1: at return, when some evaluated window passed the R2 gate, best is the
\* record of an evaluated window that passed the gate, and no evaluated window
\* that passed the gate has an exponent strictly closer to 1.
C1_BestWinner ==
  (pc = "done" /\ PassedSet # {}) =>
    \E w \in PassedSet :
      /\ ret[1] = RecOf(w)
      /\ \A v \in PassedSet : ~Lt(Dist(v), Dist(w))

\* C1 witness: the call returned a best that is not the first window that
\* passed the gate, and passing windows differ in their distance to 1.
C1_Witness ==
  /\ pc = "done"
  /\ \E w \in PassedSet, v \in PassedSet :
       /\ Lt(Dist(w), Dist(v))
       /\ ret[1] = RecOf(w)
       /\ \E j, k \in 1 .. Len(evaluated) :
            j < k /\ evaluated[j] = v /\ evaluated[k] = w

\* C2: the returned longest is all-NaN or has an exponent of at least min_exp.
C2_LongestThreshold ==
  pc = "done" =>
    (ret[2] = NaNRecord \/ Ge(ret[2][F_EXP], args.min_exp))

\* C3: at return, when some evaluated window passed the gate with an exponent
\* of at least min_exp, longest is the record of such a window, none of them
\* has more points, and none with as many points is strictly closer to 1.
C3_LongestWinner ==
  (pc = "done" /\ Qualifying # {}) =>
    \E w \in Qualifying :
      /\ ret[2] = RecOf(w)
      /\ \A v \in Qualifying :
           /\ v[1] <= w[1]
           /\ v[1] = w[1] => ~Lt(Dist(v), Dist(w))

\* C4: at return the scan has evaluated every window size min_Npts,
\* min_Npts + skip, ... up to and including the series length, at every
\* offset 0, skip, ... at which the window fits in the series.
C4_ExpectedWindows ==
  LET n == Len(time)
  IN  {<<npts, i>> \in (min_Npts .. n) \X (0 .. n) :
         /\ (npts - min_Npts) % args.skip = 0
         /\ i % args.skip = 0
         /\ i + npts <= n}
C4_ScanCoverage ==
  pc = "done" => EvaluatedSet = C4_ExpectedWindows

\* C5: once preprocessing has succeeded, the scanned series is exactly the
\* samples of the use_frac prefix with bounds[0] < time < bounds[1], in order
\* (a bound that is None or NaN removes nothing).
C5_BoundsClipping ==
  (pc # "start" /\ ~BoundsMiss) =>
    /\ time = Pick(args.time, InBounds, 1)
    /\ msd = Pick(args.msd, InBounds, 1)

\* C6: a lower bound that no sample of the use_frac prefix exceeds, or an
\* upper bound that no remaining sample is below, ends the call with a
\* ValueError, with no window evaluated and nothing returned.
C6_BoundsErrors ==
  (pc # "start" /\ BoundsMiss) =>
    /\ pc = "error"
    /\ err = "ValueError"
    /\ evaluated = <<>>
    /\ ret = <<>>

\* C6 witness: a call whose lower bound lies above every sample has ended.
C6_Witness ==
  pc = "error" /\ LowerMiss /\ KeptLen > 0

\* C7: whenever min_Npts exceeds the number of samples left after
\* preprocessing, the call warns, lowers min_Npts to fit the data and returns
\* the two records.
C7_SoftMisconfiguration ==
  (Finished /\ ~BoundsMiss /\ args.min_Npts > Len(time)) =>
    /\ warned
    /\ min_Npts <= Len(time)
    /\ pc = "done"
    /\ ret # <<>>

\* C8: when preprocessing succeeded and no evaluated window passed the R2
\* gate, the call returns best and longest all-NaN and raises nothing.
C8_NoFeature ==
  (Finished /\ ~BoundsMiss /\ PassedSet = {}) =>
    /\ pc = "done"
    /\ err = "none"
    /\ ret = <<NaNRecord, NaNRecord>>

\* C9: when the returned best is not NaN, the samples of the scanned series
\* with best.time_start <= time <= best.time_end, given to diffusivity with
\* the same dim, fit to the diffusivity, standard error, exponent and
\* intercept that best reports, with R2 above min_R2.
C9_Refit ==
  LET b   == ret[1]
      K   == {k \in 1 .. Len(time) :
                Le(b[F_T0], R(time[k])) /\ Le(R(time[k]), b[F_T1])}
  IN  diffusivity(Pick(time, K, 1), Pick(msd, K, 1), args.dim)
C9_RoundTrip ==
  (pc = "done" /\ ret[1] # NaNRecord) =>
    /\ C9_Refit.err = "none"
    /\ C9_Refit.d = ret[1][F_D]
    /\ C9_Refit.se = ret[1][F_SE]
    /\ C9_Refit.exp = ret[1][F_EXP]
    /\ C9_Refit.icpt = ret[1][F_ICPT]
    /\ Gt(C9_Refit.r2, args.min_R2)

\* C9 witness: a call returned a best window that is not the whole scanned
\* series and whose fit has a non-zero standard error.
C9_Witness ==
  /\ pc = "done"
  /\ ret[1] # NaNRecord
  /\ Lt(ret[1][F_NPTS], R(Len(time)))
  /\ Lt(R(0), ret[1][F_SE])

\* C10: each record is all-NaN until a window passes the gate; a record that
\* is not all-NaN holds, in all seven fields, the first time, last time, point
\* count and fit of one evaluated window that passed the gate; returning
\* (plot and printout included) hands back the records unchanged.
C10_Intact(rec) == rec = NaNRecord \/ \E w \in PassedSet : rec = RecOf(w)
C10_StateOk ==
  /\ C10_Intact(best)
  /\ C10_Intact(longest)
  /\ PassedSet = {} => (best = NaNRecord /\ longest = NaNRecord)
  /\ pc = "done" => ret = <<best, longest>>
C10_RecordIntegrity ==
  /\ []C10_StateOk
  /\ [][pc' = "done" => (best' = best /\ longest' = longest)]_vars

\* C10 witness: longest has been overwritten a second time, by a window with
\* more points than the first one that passed the gate.
C10_Witness ==
  /\ pc = "done"
  /\ Cardinality(PassedSet) >= 3
  /\ best # longest
  /\ \E w \in PassedSet : Lt(R(w[1]), longest[F_NPTS])

\* C27: at every step of the scan and at return, best is all-NaN exactly when
\* longest is all-NaN.
AllNaN(rec) == \A k \in 1 .. Len(rec) : isnan(rec[k])
C28_BestStep ==
  (~AllNaN(best) /\ best' # best) =>
    Lt(AbsMinusOne(best'[F_EXP]), AbsMinusOne(best[F_EXP]))
C28_LongestStep ==
  (~AllNaN(longest) /\ longest' # longest) =>
    \/ Lt(longest[F_NPTS], longest'[F_NPTS])
    \/ /\ longest'[F_NPTS] = longest[F_NPTS]
       /\ Lt(AbsMinusOne(longest'[F_EXP]), AbsMinusOne(longest[F_EXP]))
C28_CountStep ==
  ~AllNaN(longest) => Le(longest[F_NPTS], longest'[F_NPTS])
C28_MonotoneProgress ==
  [][C28_BestStep /\ C28_LongestStep /\ C28_CountStep]_allVars

\* C28 witness: best has been replaced by a later window strictly closer to
\* 1, and longest has been replaced by a window with more points.
C28_Witness ==
  /\ pc = "done"
  /\ \E j, k \in 1 .. Len(evaluated) :
       /\ j < k
       /\ Passed(evaluated[j]) /\ Passed(evaluated[k])
       /\ best = RecOf(evaluated[k])
       /\ Lt(Dist(evaluated[k]), Dist(evaluated[j]))
  /\ \E w \in PassedSet : Lt(R(w[1]), longest[F_NPTS])

\* ======================================================= autocorrelation
\* md_spa_utils/data_manipulation.py, autocorrelation(x, mode).  Signals are
\* integer sequences of length 1 .. MaxL; Cx / norm is kept as rationals.
MaxL == 3
SignalVals == {-1, 0, 1, 2}
Signals == UNION {[1 .. n -> SignalVals] : n \in 1 .. MaxL}
ModeStrings == {"fft", "numpy", "loop", "scipy"}

\* norm = (lx - np.arange(0, lx))
ac_norm_biased(lx) == [k \in 1 .. lx |-> lx]
ac_norm(lx) == [k \in 1 .. lx |-> lx - (k - 1)]

\* np.fft.fft(x, n=n) reads x cut or zero-padded to n samples.
Padded(x, n) == [j \in 1 .. n |-> IF j <= Len(x) THEN x[j] ELSE 0]

\* np.fft.ifft(np.abs(np.fft.fft(x, n=n))**2): by the correlation theorem,
\* the circular autocorrelation of the n padded samples (its imaginary part
\* is zero).
CircularCorrelation(x, n) ==
  LET xp == Padded(x, n)
  IN  [k \in 1 .. n |->
         SumSeq([j \in 1 .. n |-> xp[j] * xp[((j - 1 + k - 1) % n) + 1]])]

\* Mutant of ac_fft: the transform is taken without zero padding (n = lx).
ac_fft_unpadded(x) == PySlice(CircularCorrelation(x, Len(x)), 0, Len(x))

\* mode == "fft", line 205.
ac_fft(x) == PySlice(CircularCorrelation(x, 2 * Len(x)), 0, Len(x))

\* np.correlate(x, x, mode='full'): entry m is the lag m - (lx - 1).
np_correlate_full(x) ==
  LET lx == Len(x)
  IN  [m \in 1 .. 2 * lx - 1 |->
         SumSeq([n \in 1 .. lx |->
                   IF n + (m - lx) \in 1 .. lx THEN x[n + (m - lx)] * x[n]
                   ELSE 0])]

\* mode == "numpy", line 207.
ac_numpy(x) == PySlice(np_correlate_full(x), Len(x) - 1, 2 * Len(x) - 1)

\* mode == "loop", lines 210-211: Cx[:lx-j] += x[j]*x[j:] for j = j .. lx-1.
RECURSIVE ac_loop_from(_, _, _)
ac_loop_from(x, Cx, j) ==
  IF j >= Len(x) THEN Cx
  ELSE ac_loop_from(
         x,
         [k \in 1 .. Len(x) |->
            IF k <= Len(x) - j THEN Cx[k] + x[j + 1] * x[j + k] ELSE Cx[k]],
         j + 1)
ac_loop(x) == ac_loop_from(x, [k \in 1 .. Len(x) |-> 0], 0)

\* Mutant of autocorrelation: an unknown mode falls back to the fft branch.
autocorrelation_fallback(x, mode) ==
  LET raw == IF mode = "numpy" THEN ac_numpy(x)
             ELSE IF mode = "loop" THEN ac_loop(x)
             ELSE ac_fft(x)
  IN  [err |-> "none",
       Cx  |-> [k \in 1 .. Len(x) |-> <<raw[k], ac_norm(Len(x))[k]>>]]

\* autocorrelation(x, mode), lines 201-215.
autocorrelation(x, mode) ==
  IF mode \notin {"fft", "numpy", "loop"}
  THEN [err |-> "ValueError", Cx |-> <<>>]
  ELSE LET raw == IF mode = "fft" THEN ac_fft(x)
                  ELSE IF mode = "numpy" THEN ac_numpy(x)
                  ELSE ac_loop(x)
       IN  [err |-> "none",
            Cx  |-> [k \in 1 .. Len(x) |-> <<raw[k], ac_norm(Len(x))[k]>>]]

NotCalled == [err |-> "not called", Cx |-> <<>>]

AcInit ==
  /\ FdIdle /\ ValIdle /\ MsdIdle /\ ExtIdle /\ DwIdle /\ ClIdle /\ KpIdle
  /\ ac_x \in Signals
  /\ ac_Cx = [m \in ModeStrings |-> NotCalled]

\* One call autocorrelation(x, mode) on the signal.
AcCall ==
  /\ \E mode \in ModeStrings :
       /\ ac_Cx[mode] = NotCalled
       /\ ac_Cx' = [ac_Cx EXCEPT ![mode] = autocorrelation(ac_x, mode)]
  /\ UNCHANGED <<ac_x, vars, valVars, msdVars, extVars, dwVars, clVars, kpVars>>

AcNext == AcCall

SpecAutocorrelation == AcInit /\ [][AcNext]_allVars

Called(mode) == ac_Cx[mode] # NotCalled
Supported == {"fft", "numpy", "loop"}

\* The lagged product sum of the definition: sum over j = 0 .. L-k-1 of
\* x[j] * x[j+k] (k counted from 0).
LagSum(x, k) == SumSeq([j \in 1 .. Len(x) - k |-> x[j] * x[j + k]])

\* a = b as rationals.
RatEq(a, b) == IsFinite(a) /\ IsFinite(b) /\ a[1] * b[2] = b[1] * a[2]

\* C17: for a signal of length L >= 1 and each supported mode, the call
\* returns L values and the value at lag k is LagSum(x, k) / (L - k).
C17_Definition ==
  \A mode \in Supported :
    Called(mode) =>
      /\ ac_Cx[mode].err = "none"
      /\ Len(ac_Cx[mode].Cx) = Len(ac_x)
      /\ \A k \in 0 .. Len(ac_x) - 1 :
           ac_Cx[mode].Cx[k + 1] = <<LagSum(ac_x, k), Len(ac_x) - k>>

\* C17 witness: all three supported modes have run on a signal of three
\* samples whose lag-1 and lag-2 sums are not zero.
C17_Witness ==
  /\ \A mode \in Supported : Called(mode)
  /\ Len(ac_x) >= 3
  /\ LagSum(ac_x, 1) # 0
  /\ LagSum(ac_x, 2) # 0

\* C18: the results of the fft, numpy and loop modes on the same signal
\* agree at every lag.
C18_ModesAgree ==
  \A m1 \in Supported, m2 \in Supported :
    (Called(m1) /\ Called(m2)) =>
      /\ Len(ac_Cx[m1].Cx) = Len(ac_Cx[m2].Cx)
      /\ \A k \in 1 .. Len(ac_Cx[m1].Cx) :
           RatEq(ac_Cx[m1].Cx[k], ac_Cx[m2].Cx[k])

\* C18 witness: the three modes have run on a signal whose circular
\* correlation without padding would differ from the padded one.
C18_Witness ==
  /\ \A mode \in Supported : Called(mode)
  /\ Len(ac_x) >= 2
  /\ ac_x[1] * ac_x[Len(ac_x)] # 0

\* C19: a call with a mode string other than "fft", "numpy" or "loop" raises
\* ValueError and returns no sequence.
C19_UnknownMode ==
  \A mode \in ModeStrings \ Supported :
    Called(mode) => (ac_Cx[mode].err = "ValueError" /\ ac_Cx[mode].Cx = <<>>)

\* C19 witness: the unsupported mode string has been tried.
C19_Witness == \E mode \in ModeStrings \ Supported : Called(mode)

\* ================================================================== msd
\* md_spa/msd.py, msd(coords).  Coordinates are integers; the curves are
\* rationals in lowest terms.  An array is [ndim, data]: data is a sequence
\* of numbers (1-D), of positions (2-D, time x dims) or of particle
\* trajectories (3-D, particles x time x dims).
PosVals == {0, 1, 3}

\* (nparticles, npts, dims) of the 3-D inputs, (npts, dims) of the 2-D ones
\* and the lengths of the 1-D ones.
Shapes3 ==
  {<<1, 1, 1>>, <<1, 2, 1>>, <<1, 3, 1>>, <<1, 2, 2>>,
   <<2, 1, 1>>, <<2, 2, 1>>, <<2, 3, 1>>, <<3, 2, 1>>}
Shapes2 == {<<1, 1>>, <<2, 1>>, <<3, 1>>, <<2, 2>>}
Shapes1 == {1, 2, 3}

Trajectories(npts, dims) == [1 .. npts -> [1 .. dims -> PosVals]]
Arrays ==
  UNION {{[ndim |-> 3, data |-> d] :
            d \in [1 .. sh[1] -> Trajectories(sh[2], sh[3])]} : sh \in Shapes3}
  \cup UNION {{[ndim |-> 2, data |-> d] : d \in Trajectories(sh[1], sh[2])} :
                sh \in Shapes2}
  \cup UNION {{[ndim |-> 1, data |-> d] : d \in [1 .. n -> PosVals]} :
                n \in Shapes1}

RECURSIVE GCD(_, _)
GCD(a, b) == IF b = 0 THEN a ELSE GCD(b, a % b)
Reduce(a) ==
  LET g == GCD(Abs(a[1]), a[2])
  IN  IF g = 0 THEN a ELSE <<a[1] \div g, a[2] \div g>>
RatAdd(a, b) == Reduce(<<a[1] * b[2] + b[1] * a[2], a[2] * b[2]>>)
RatSub(a, b) == Reduce(<<a[1] * b[2] - b[1] * a[2], a[2] * b[2]>>)
RatMulInt(a, k) == Reduce(<<a[1] * k, a[2]>>)
RatDivInt(a, k) == Reduce(<<a[1], a[2] * k>>)
RECURSIVE RatSum(_)
RatSum(s) == IF s = <<>> THEN R(0) ELSE RatAdd(Head(s), RatSum(Tail(s)))

\* s[i] with Python indexing: i from 0, a negative i counts from the end.
PyIndex(s, i) == IF i < 0 THEN s[Len(s) + i + 1] ELSE s[i + 1]

\* Mutant of Promote: each time step becomes a particle of its own.
PromotePerStep(data) == [k \in 1 .. Len(data) |-> <<data[k]>>]

\* Line 484: coords = np.array([coords]), a new array of one particle.
Promote(data) == <<data>>

\* Mutant of recentre: the last position is subtracted, not the first.
recentre_on_last(particle) ==
  [k \in 1 .. Len(particle) |->
     [d \in DOMAIN particle[k] |-> particle[k][d] - particle[Len(particle)][d]]]

\* Line 488: coords[i] - coords[i][0].
recentre(particle) ==
  [k \in 1 .. Len(particle) |->
     [d \in DOMAIN particle[k] |-> particle[k][d] - particle[1][d]]]

\* Lines 491-492, one particle: the squared distances with a zero appended.
DSQ(particle) ==
  [k \in 1 .. Len(particle) |->
     SumSeq([d \in DOMAIN particle[k] |-> particle[k][d] * particle[k][d]])]
  \o <<0>>

\* Mutant of SUMSQ: the sum of squares is taken once.
SUMSQ_once(dsq) == SumSeq(dsq)

\* Line 493, one particle.
SUMSQ(dsq) == 2 * SumSeq(dsq)

\* Lines 497-499: the per-dimension autocorrelations, summed.
Sab(particle) ==
  LET npts == Len(particle)
      dims == Len(particle[1])
      Cx(d) == autocorrelation([k \in 1 .. npts |-> particle[k][d]], "fft").Cx
  IN  [t \in 1 .. npts |-> RatSum([d \in 1 .. dims |-> Cx(d)[t]])]

\* Lines 501-503 from lag t on; sumsq is SUMSQ[i] before the update of lag t.
RECURSIVE msd_lags(_, _, _, _, _)
msd_lags(dsq, sab, npts, sumsq, t) ==
  IF t >= npts THEN <<>>
  ELSE LET s == sumsq - (PyIndex(dsq, t - 1) + PyIndex(dsq, npts - t))
       IN  <<RatSub(<<s, npts - t>>, RatMulInt(sab[t + 1], 2))>>
           \o msd_lags(dsq, sab, npts, s, t + 1)

\* Lines 496-503 for one particle: the row particle_msd[i].
particle_curve(particle) ==
  msd_lags(DSQ(particle), Sab(particle), Len(particle), SUMSQ(DSQ(particle)), 0)

\* np.mean(a, axis=0) of a 2-D array of rationals (rows of equal length).
mean_axis0(rows) ==
  [t \in 1 .. Len(rows[1]) |->
     RatDivInt(RatSum([i \in 1 .. Len(rows) |-> rows[i][t]]), Len(rows))]

\* Mutant of stderror: the particle count is not tested.
stderror_any(curve, nparticles) ==
  LET m == RatDivInt(RatSum(curve), Len(curve))
  IN  [shape |-> <<>>,
       sq    |-> Reduce(<<m[1] * m[1], m[2] * m[2] * nparticles>>)]

\* Lines 506-509.  np.mean(msd, axis=0) of the 1-D curve msd is one number, so
\* with several particles stderror is a scalar (shape <<>>), kept squared in
\* sq; with one particle it is an array of npts NaN.
stderror(curve, nparticles) ==
  IF nparticles > 1
  THEN LET m == RatDivInt(RatSum(curve), Len(curve))
       IN  [shape |-> <<>>,
            sq    |-> Reduce(<<m[1] * m[1], m[2] * m[2] * nparticles>>)]
  ELSE [shape |-> <<Len(curve)>>, vals |-> [t \in 1 .. Len(curve) |-> NaN]]

\* Lines 505-511 on the filled particle_msd.
msd_result(rows) ==
  [msd      |-> mean_axis0(rows),
   stderror |-> stderror(mean_axis0(rows), Len(rows))]

\* For comparison the actions below run a second call next to the first, on
\* the same particles passed as a 3-D array (which line 483 leaves as it is):
\* b_coords, b_particle_msd and batch_ret are its coords, particle_msd and
\* returned pair.
MsdInit ==
  /\ FdIdle /\ ValIdle /\ AcIdle /\ ExtIdle /\ DwIdle /\ ClIdle /\ KpIdle
  /\ caller0 \in Arrays
  /\ caller = caller0
  /\ coords = <<>>
  /\ aliased = FALSE
  /\ particle_msd = <<>>
  /\ msd_ret = <<>>
  /\ b_coords = <<>>
  /\ b_particle_msd = <<>>
  /\ batch_ret = <<>>
  /\ m_pc = "start"
  /\ m_err = "none"

\* Lines 481-485: reject a 1-D array, promote a 2-D one.
MsdShape ==
  /\ m_pc = "start"
  /\ IF caller.ndim = 1
     THEN /\ m_err' = "ValueError"
          /\ m_pc' = "error"
          /\ UNCHANGED <<coords, aliased, b_coords>>
     ELSE /\ coords' = IF caller.ndim = 2 THEN Promote(caller.data)
                       ELSE caller.data
          /\ aliased' = (caller.ndim = 3)
          /\ b_coords' = IF caller0.ndim = 2 THEN <<caller0.data>>
                         ELSE caller0.data
          /\ m_pc' = "recentre"
          /\ UNCHANGED m_err
  /\ UNCHANGED <<caller0, caller, particle_msd, msd_ret>>
  /\ UNCHANGED <<b_particle_msd, batch_ret>>
  /\ UNCHANGED <<vars, valVars, acVars, extVars, dwVars, clVars, kpVars>>

\* Lines 487-488: every particle is shifted in the array coords names.
MsdRecentre ==
  /\ m_pc = "recentre"
  /\ coords' = [i \in 1 .. Len(coords) |-> recentre(coords[i])]
  /\ caller' = IF aliased THEN [caller EXCEPT !.data = coords'] ELSE caller
  /\ b_coords' = [i \in 1 .. Len(b_coords) |-> recentre(b_coords[i])]
  /\ m_pc' = "particles"
  /\ UNCHANGED <<caller0, aliased, particle_msd, msd_ret, m_err>>
  /\ UNCHANGED <<b_particle_msd, batch_ret>>
  /\ UNCHANGED <<vars, valVars, acVars, extVars, dwVars, clVars, kpVars>>

\* Lines 496-503: one pass of the loop over particles (in the second call
\* too, while it has particles left).
MsdParticle ==
  /\ m_pc = "particles"
  /\ LET i == Len(particle_msd) + 1
     IN  /\ particle_msd' = Append(particle_msd, particle_curve(coords[i]))
         /\ b_particle_msd' =
              IF i <= Len(b_coords)
              THEN Append(b_particle_msd, particle_curve(b_coords[i]))
              ELSE b_particle_msd
         /\ m_pc' = IF i = Len(coords) THEN "average" ELSE "particles"
  /\ UNCHANGED <<caller0, caller, coords, aliased, msd_ret, m_err>>
  /\ UNCHANGED <<b_coords, batch_ret>>
  /\ UNCHANGED <<vars, valVars, acVars, extVars, dwVars, clVars, kpVars>>

\* Lines 505-511.
MsdReturn ==
  /\ m_pc = "average"
  /\ msd_ret' = msd_result(particle_msd)
  /\ batch_ret' = msd_result(b_particle_msd)
  /\ m_pc' = "done"
  /\ UNCHANGED <<caller0, caller, coords, aliased, particle_msd, m_err>>
  /\ UNCHANGED <<b_coords, b_particle_msd>>
  /\ UNCHANGED <<vars, valVars, acVars, extVars, dwVars, clVars, kpVars>>

MsdNext == MsdShape \/ MsdRecentre \/ MsdParticle \/ MsdReturn

SpecMsd == MsdInit /\ [][MsdNext]_allVars

\* The particles of the input as the call reads them.
Particles0 == IF caller0.ndim = 2 THEN <<caller0.data>> ELSE caller0.data
NParticles0 == Len(Particles0)
NPts0 == Len(Particles0[1])
MsdReturned == m_pc = "done"

\* The direct definition at lag t (from 0): the mean over k = 0 .. T-t-1 of
\* |r(k+t) - r(k)|^2.
DirectMsd(r, t) ==
  <<SumSeq([k \in 1 .. Len(r) - t |->
      SumSeq([d \in DOMAIN r[k] |->
                (r[k + t][d] - r[k][d]) * (r[k + t][d] - r[k][d])])]),
    Len(r) - t>>

\* C12: every filled row of particle_msd equals the direct definition on
\* that particle's original positions at every lag, and the returned curve is
\* the mean of the direct definition over the particles.
C12_Recursion ==
  /\ \A i \in 1 .. Len(particle_msd) :
       /\ Len(particle_msd[i]) = NPts0
       /\ \A t \in 0 .. NPts0 - 1 :
            RatEq(particle_msd[i][t + 1], DirectMsd(Particles0[i], t))
  /\ MsdReturned =>
       /\ Len(msd_ret.msd) = NPts0
       /\ \A t \in 0 .. NPts0 - 1 :
            LET total == RatSum([i \in 1 .. NParticles0 |->
                                   DirectMsd(Particles0[i], t)])
            IN  msd_ret.msd[t + 1][1] * total[2] * NParticles0
                  = total[1] * msd_ret.msd[t + 1][2]

\* C12 witness: a returned curve of two particles over three steps, neither
\* starting at the origin, with different curves.
C12_Witness ==
  /\ MsdReturned
  /\ NParticles0 = 2 /\ NPts0 = 3
  /\ \A i \in 1 .. 2 : Particles0[i][1][1] # 0
  /\ particle_msd[1] # particle_msd[2]
  /\ \A t \in 2 .. 3 : msd_ret.msd[t][1] # 0

\* The recentred coordinates: each position minus the original position of
\* the same particle at time 0.
Shifted(particles) ==
  [i \in 1 .. Len(particles) |->
     [k \in 1 .. Len(particles[i]) |->
        [d \in 1 .. Len(particles[i][k]) |->
           particles[i][k][d] - particles[i][1][d]]]]
PastRecentre == m_pc \in {"particles", "average", "done"}

\* C13: the call returns an MSD curve and a standard error that both have
\* one entry per time step; with one particle the standard error is NaN at
\* every lag.
C13_OutputShape ==
  MsdReturned =>
    /\ Len(msd_ret.msd) = NPts0
    /\ msd_ret.stderror.shape = <<NPts0>>
    /\ NParticles0 = 1 =>
         \A t \in 1 .. NPts0 : isnan(msd_ret.stderror.vals[t])

\* C14: a single particle whose positions are all equal gets an MSD curve
\* that is zero at every lag and a standard error that is NaN at every lag.
Static(r) == \A k \in 1 .. Len(r) : r[k] = r[1]
C14_StaticParticle ==
  (MsdReturned /\ NParticles0 = 1 /\ Static(Particles0[1])) =>
    /\ Len(msd_ret.msd) = NPts0
    /\ \A t \in 1 .. NPts0 : RatEq(msd_ret.msd[t], R(0))
    /\ msd_ret.stderror.shape = <<NPts0>>
    /\ \A t \in 1 .. NPts0 : isnan(msd_ret.stderror.vals[t])

\* C14 witness: a static particle away from the origin, three steps long.
C14_Witness ==
  /\ MsdReturned /\ NParticles0 = 1 /\ Static(Particles0[1])
  /\ NPts0 = 3
  /\ Particles0[1][1][1] # 0

\* C15: a 1-D array raises ValueError with nothing computed; a 2-D array
\* returns what the call on the 3-D batch holding that one particle returns.
C15_Dimensionality ==
  /\ (caller0.ndim = 1 /\ m_pc # "start") =>
       /\ m_pc = "error" /\ m_err = "ValueError"
       /\ coords = <<>> /\ particle_msd = <<>> /\ msd_ret = <<>>
       /\ caller = caller0
  /\ (caller0.ndim = 2 /\ MsdReturned) =>
       /\ m_err = "none"
       /\ b_coords = Shifted(<<caller0.data>>)
       /\ Len(b_particle_msd) = 1
       /\ msd_ret = batch_ret
  /\ caller0.ndim # 1 => m_err = "none"

\* C15 witness: a 2-D array of three steps with a moving particle returned.
C15_Witness ==
  /\ MsdReturned /\ caller0.ndim = 2
  /\ Len(caller0.data) = 3
  /\ ~Static(caller0.data)

\* C16 as stated: after the recentring every accepted array, 2-D or 3-D,
\* holds the recentred coordinates.
C16_CallerRecentred ==
  PastRecentre =>
    /\ caller.ndim = caller0.ndim
    /\ (IF caller.ndim = 2 THEN <<caller.data>> ELSE caller.data)
         = Shifted(Particles0)

\* C16 amended: a 3-D array holds the recentred coordinates from the
\* recentring on and nothing else about it changes; a 2-D array is never
\* changed (the recentring is done in the promoted copy); no array changes
\* before the recentring.
C16_SideEffect ==
  /\ caller.ndim = caller0.ndim
  /\ ~PastRecentre => caller = caller0
  /\ (PastRecentre /\ caller0.ndim = 3) => caller.data = Shifted(caller0.data)
  /\ caller0.ndim = 2 => caller = caller0
  /\ (PastRecentre /\ caller0.ndim = 2) => coords = Shifted(<<caller0.data>>)

\* C16 witness: a returned call on a 3-D array of two particles that both
\* started away from the origin and moved.
C16_Witness ==
  /\ MsdReturned /\ caller0.ndim = 3 /\ NParticles0 = 2
  /\ \A i \in 1 .. 2 : Particles0[i][1][1] # 0 /\ ~Static(Particles0[i])
  /\ caller # caller0

\* ===================================================== input validation
\* md_spa/msd.py: the opening blocks of debye_waller, find_diffusivity and
\* diffusivity.  An argument is [ndim, data]: ndim = 0 for an object that
\* np.array(obj, dtype=object) turns into a 0-d array (a number, a string, a
\* generator) and data then holds that one value; ndim = 1 for a sequence.
ValLens == {0, 1, 2, 3}
ValUseFracs == {<<1, 1>>, <<1, 2>>, <<2, 3>>}
ValVals == {1, 2}
ValObjects ==
  {[ndim |-> 0, data |-> <<v>>] : v \in ValVals}
  \cup UNION {{[ndim |-> 1, data |-> d] : d \in [1 .. n -> ValVals]} :
                n \in ValLens}
ValFunctions == {"debye_waller", "find_diffusivity", "diffusivity"}

\* data_manipulation.py:118-126: np.shape(np.array(array, dtype=object)) is
\* not empty.
isiterable(array) == array.ndim > 0

\* Mutant of check_inputs: the lengths are not compared.
check_inputs_no_length(t, m) ==
  IF ~isiterable(t) \/ ~isiterable(m) THEN "ValueError" ELSE "none"

\* msd.py:232-242, 381-391, 543-553 (the three blocks are the same code).
check_inputs(t, m) ==
  IF ~isiterable(t) THEN "ValueError"
  ELSE IF ~isiterable(m) THEN "ValueError"
  ELSE IF Len(m.data) # Len(t.data) THEN "ValueError"
  ELSE "none"

\* What each function does once its arguments are accepted, in order.
StepsOf(fn) ==
  IF fn = "debye_waller" THEN <<"truncate", "log10", "spline", "return">>
  ELSE IF fn = "find_diffusivity"
       THEN <<"truncate", "clip", "regression", "return">>
  ELSE <<"log", "regression", "return">>

ValInit ==
  /\ FdIdle /\ AcIdle /\ MsdIdle /\ ExtIdle /\ DwIdle /\ ClIdle /\ KpIdle
  /\ v_fn \in ValFunctions
  /\ v_time \in ValObjects
  /\ v_msd \in ValObjects
  /\ v_pc = "start"
  /\ v_err = "none"
  /\ v_work = <<>>
  /\ v_use_frac \in IF v_fn = "diffusivity" THEN {<<1, 1>>} ELSE ValUseFracs
  /\ v_loc = <<>>

Validate(fn) ==
  /\ v_fn = fn
  /\ v_pc = "start"
  /\ v_err' = check_inputs(v_time, v_msd)
  /\ v_pc' = IF v_err' = "none" THEN "validated" ELSE "error"
  /\ UNCHANGED <<v_fn, v_time, v_msd, v_work, v_use_frac, v_loc>>
  /\ UNCHANGED <<vars, acVars, msdVars, extVars, dwVars, clVars, kpVars>>

\* debye_waller, lines 232-242.
ValidateDebyeWaller == Validate("debye_waller")
\* find_diffusivity, lines 381-391.
ValidateFindDiffusivity == Validate("find_diffusivity")
\* diffusivity, lines 543-553.
ValidateDiffusivity == Validate("diffusivity")

\* The next processing step of the function (lines 244 on, 393 on, 556 on).
\* The step "truncate" is lines 244-245 and 393-394: msd, then time, cut to
\* int(len(time) * use_frac) samples.
ValProceed ==
  /\ v_pc = "validated"
  /\ v_work' = Append(v_work, StepsOf(v_fn)[Len(v_work) + 1])
  /\ v_pc' = IF Len(v_work') = Len(StepsOf(v_fn)) THEN "done" ELSE "validated"
  /\ v_loc' =
       IF StepsOf(v_fn)[Len(v_work) + 1] = "truncate"
       THEN LET m == Truncate(v_msd.data, Len(v_time.data), v_use_frac)
            IN  [msd  |-> m,
                 time |-> Truncate(v_time.data, Len(v_time.data), v_use_frac)]
       ELSE v_loc
  /\ UNCHANGED <<v_fn, v_time, v_msd, v_err, v_use_frac>>
  /\ UNCHANGED <<vars, acVars, msdVars, extVars, dwVars, clVars, kpVars>>

ValNext ==
  \/ ValidateDebyeWaller
  \/ ValidateFindDiffusivity
  \/ ValidateDiffusivity
  \/ ValProceed

SpecValidate == ValInit /\ [][ValNext]_allVars

BadInputs ==
  \/ v_time.ndim = 0
  \/ v_msd.ndim = 0
  \/ Len(v_time.data) # Len(v_msd.data)

\* C11: in each of the three functions, arguments of which one is not
\* iterable or whose lengths differ end the call with ValueError, and no
\* processing step is ever performed.
C11_FailFast ==
  BadInputs =>
    /\ v_work = <<>>
    /\ v_pc \in {"start", "error"}
    /\ v_pc = "error" => v_err = "ValueError"

\* C11 witness: find_diffusivity has rejected two sequences of different
\* length.
C11_Witness ==
  /\ v_fn = "find_diffusivity"
  /\ v_pc = "error"
  /\ v_time.ndim = 1 /\ v_msd.ndim = 1
  /\ Len(v_time.data) # Len(v_msd.data)

\* ========================================================= pull_extrema
\* md_spa/fit_data.py, pull_extrema.  The spline fits are taken as given for
\* data both fits accept: e_in holds what they report, the roots of the
\* first derivative of the k=4 spline (location x, spline value y, second
\* derivative c there) and the roots of the second derivative of the k=5
\* spline (location x, k=4 spline value y there), both in increasing x.
DefaultErrorLength == 25
RootCounts == 0 .. 3
InflectionCounts == 0 .. 2
SplineValues == {-2, 0, 1}
Concavities == {-1, 0, 1}
InflectionValues == {0, 1}
ExtremaCutoffs == {0, 1}
ErrorLengths == {1, 2, DefaultErrorLength}

Roots(n) ==
  {[k \in 1 .. n |-> [x |-> 2 * k, y |-> yc[k][1], c |-> yc[k][2]]] :
     yc \in [1 .. n -> SplineValues \X Concavities]}
InflectionRoots(n) ==
  {[k \in 1 .. n |-> [x |-> 2 * k + 1, y |-> ys[k]]] :
     ys \in [1 .. n -> InflectionValues]}
ExtArgs ==
  [roots          : UNION {Roots(n) : n \in RootCounts},
   inflections    : UNION {InflectionRoots(n) : n \in InflectionCounts},
   extrema_cutoff : ExtremaCutoffs,
   error_length   : ErrorLengths]

\* Lines 163 and 190: [x for x in ... if np.abs(spline(x)) > extrema_cutoff].
retained(points, extrema_cutoff) ==
  SelectSeq(points, LAMBDA p : Abs(p.y) > extrema_cutoff)

\* Mutant of too_many: the threshold itself already trips the breaker.
too_many_or_equal(ext, error_length) == Len(ext) >= error_length

\* Line 165: len(extrema) > error_length.
too_many(ext, error_length) == Len(ext) > error_length

\* Lines 180-186: concavity[i] > 0 goes to minima, anything else to maxima.
minima_of(ext) == SelectSeq(ext, LAMBDA p : p.c > 0)
maxima_of(ext) == SelectSeq(ext, LAMBDA p : ~(p.c > 0))

\* np.array(points).T of a list of [x, spline(x)] pairs: a row of x and a
\* row of values, or an empty array.
transposed(points) ==
  IF points = <<>> THEN <<>>
  ELSE <<[k \in 1 .. Len(points) |-> points[k].x],
         [k \in 1 .. Len(points) |-> points[k].y]>>

ExtInit ==
  /\ FdIdle /\ ValIdle /\ AcIdle /\ MsdIdle /\ DwIdle /\ ClIdle /\ KpIdle
  /\ e_in \in ExtArgs
  /\ extrema = <<>>
  /\ e_ret = <<>>
  /\ e_pc = "start"
  /\ e_err = "none"

\* Lines 161-163: fit, take the critical points, drop the small ones.
ExtFilter ==
  /\ e_pc = "start"
  /\ extrema' = retained(e_in.roots, e_in.extrema_cutoff)
  /\ e_pc' = "filtered"
  /\ UNCHANGED <<e_in, e_ret, e_err>>
  /\ UNCHANGED <<vars, valVars, acVars, msdVars, dwVars, clVars, kpVars>>

\* Lines 165-176: the circuit breaker.
ExtBreaker ==
  /\ e_pc = "filtered"
  /\ IF too_many(extrema, e_in.error_length)
     THEN e_err' = "ValueError" /\ e_pc' = "error"
     ELSE e_err' = e_err /\ e_pc' = "classify"
  /\ UNCHANGED <<e_in, extrema, e_ret>>
  /\ UNCHANGED <<vars, valVars, acVars, msdVars, dwVars, clVars, kpVars>>

\* Lines 177-213: classify, collect the inflections, return.
ExtReturn ==
  /\ e_pc = "classify"
  /\ e_ret' =
       [minima      |-> transposed(minima_of(extrema)),
        maxima      |-> transposed(maxima_of(extrema)),
        inflections |-> transposed(retained(e_in.inflections,
                                            e_in.extrema_cutoff))]
  /\ e_pc' = "done"
  /\ UNCHANGED <<e_in, extrema, e_err>>
  /\ UNCHANGED <<vars, valVars, acVars, msdVars, dwVars, clVars, kpVars>>

ExtNext == ExtFilter \/ ExtBreaker \/ ExtReturn

SpecExtrema == ExtInit /\ [][ExtNext]_allVars

\* How many of the reported points have a spline value above the cutoff.
CountAbove(points) ==
  Cardinality({k \in 1 .. Len(points) :
                 Abs(points[k].y) > e_in.extrema_cutoff})
PastBreaker == e_pc \in {"error", "classify", "done"}

\* C20: the call ends with ValueError exactly when the critical points kept
\* by the cutoff outnumber error_length; otherwise it returns the three
\* arrays, whatever the number of inflection points.
C20_CircuitBreaker ==
  /\ PastBreaker =>
       (e_pc = "error" <=> CountAbove(e_in.roots) > e_in.error_length)
  /\ e_pc = "error" => (e_err = "ValueError" /\ e_ret = <<>>)
  /\ e_pc # "error" => e_err = "none"
  /\ e_pc = "done" =>
       /\ CountAbove(e_in.roots) <= e_in.error_length
       /\ DOMAIN e_ret = {"minima", "maxima", "inflections"}

\* C20 witness: the breaker has tripped on two kept critical points out of
\* three reported, with error_length 1.
C20_Witness ==
  /\ e_pc = "error"
  /\ Len(e_in.roots) = 3
  /\ CountAbove(e_in.roots) = 2
  /\ e_in.error_length = 1

\* The locations of a returned 2 x N array (none for an empty array).
LocationsOf(arr) == IF arr = <<>> THEN <<>> ELSE arr[1]
Increasing(xs) == \A j, k \in 1 .. Len(xs) : j < k => xs[j] < xs[k]
SeqRange(xs) == {xs[k] : k \in 1 .. Len(xs)}
\* The second derivative of the k=4 spline at the critical point at x.
ConcavityAt(x) ==
  (CHOOSE p \in SeqRange(e_in.roots) : p.x = x).c
RetainedLocations ==
  {p.x : p \in {q \in SeqRange(e_in.roots) :
                  Abs(q.y) > e_in.extrema_cutoff}}

\* C21: at return the minima and the maxima are disjoint and together are
\* the retained critical points, a minimum has a positive and a maximum a
\* negative second derivative, and each array is in increasing location.
C21_Classification ==
  e_pc = "done" =>
    LET mins == LocationsOf(e_ret.minima)
        maxs == LocationsOf(e_ret.maxima)
    IN  /\ SeqRange(mins) \cap SeqRange(maxs) = {}
        /\ SeqRange(mins) \cup SeqRange(maxs) = RetainedLocations
        /\ Len(mins) + Len(maxs) = Cardinality(RetainedLocations)
        /\ \A x \in SeqRange(mins) : ConcavityAt(x) > 0
        /\ \A x \in SeqRange(maxs) : ConcavityAt(x) < 0
        /\ Increasing(mins) /\ Increasing(maxs)

\* The samples the analysis keeps: int(n * use_frac) of n.
KeptSamples == (Len(v_time.data) * v_use_frac[1]) \div v_use_frac[2]
Truncated == v_loc # <<>>

\* C24: once debye_waller or find_diffusivity has truncated, its local time
\* and msd are the first int(n * use_frac) samples of the arguments, sample
\* for sample, so they have equal length; with use_frac = 1 they are the
\* arguments.
C24_Truncation ==
  Truncated =>
    /\ v_fn \in {"debye_waller", "find_diffusivity"}
    /\ Len(v_time.data) = Len(v_msd.data)
    /\ Len(v_loc.time) = KeptSamples
    /\ Len(v_loc.msd) = KeptSamples
    /\ \A k \in 1 .. KeptSamples :
         v_loc.time[k] = v_time.data[k] /\ v_loc.msd[k] = v_msd.data[k]
    /\ v_use_frac = <<1, 1>> =>
         (v_loc.time = v_time.data /\ v_loc.msd = v_msd.data)

\* C24 witness: debye_waller has kept two of three samples.
C24_Witness ==
  /\ Truncated
  /\ v_fn = "debye_waller"
  /\ Len(v_time.data) = 3
  /\ Len(v_loc.time) = 2
  /\ v_time.data # v_msd.data

\* ========================================================= debye_waller
\* md_spa/msd.py, debye_waller, lines 256-283 and 320.  The quintic spline of
\* the log-log curve is taken as given: d_in lists the roots of its second
\* derivative in increasing location, each with the location x, the spline
\* value y = spline(x), the slope d1 = dspline(x) and the third derivative
\* d3 = extrema_concavity(x).  A float is a record: Num(v), NaNBound (np.nan),
\* PosInf (np.inf) or Pow10(v) (10**v).
n_min == 50
PosInf == [kind |-> "inf", val |-> 0]
Pow10(v) == [kind |-> "pow10", val |-> v]

DwSlopes == {-1, 2}
DwThirds == {-1, 0, 1}
DwValues == {3, 4}
DwShortLens == {0, 1, 2}
DwShortRoots ==
  UNION {{[k \in 1 .. n |->
             [x |-> k, y |-> v[k][1], d1 |-> v[k][2], d3 |-> v[k][3]]] :
            v \in [1 .. n -> DwValues \X DwSlopes \X DwThirds]} :
           n \in DwShortLens}
\* More roots than n_min: every third derivative positive but the one at
\* position q (none for q = 0), every slope 5 but the slope 1 at position j.
DwLongRoots ==
  {[k \in 1 .. n_min + 2 |->
      [x |-> k, y |-> k + 1,
       d1 |-> IF k = j THEN 1 ELSE 5,
       d3 |-> IF k = q THEN -1 ELSE 1]] :
     j \in {3, n_min, n_min + 1, n_min + 2}, q \in {0, 1}}
DwRoots == DwShortRoots \cup DwLongRoots

\* a <= b for the floats Num(v) and PosInf.
FloatLe(a, b) == b.kind = "inf" \/ (a.kind = "num" /\ a.val <= b.val)

\* np.min(a) of an array of Num(v) and PosInf.
np_min(a) ==
  a[CHOOSE k \in 1 .. Len(a) : \A j \in 1 .. Len(a) : FloatLe(a[k], a[j])]

\* Mutant of first_where_equal: the last matching index is taken.
last_where_equal(a, v) ==
  CHOOSE k \in 1 .. Len(a) :
    a[k] = v /\ \A j \in 1 .. Len(a) : a[j] = v => j <= k

\* Line 277: np.where(a == v)[0][0], counted from 1.
first_where_equal(a, v) ==
  CHOOSE k \in 1 .. Len(a) :
    a[k] = v /\ \A j \in 1 .. Len(a) : a[j] = v => k <= j

\* Mutant of is_caging: a zero third derivative qualifies too.
is_caging_or_flat(root) == root.d3 >= 0

\* Line 268: extrema_concavity(min_max) > 0.
is_caging(root) == root.d3 > 0

DwInit ==
  /\ FdIdle /\ ValIdle /\ AcIdle /\ MsdIdle /\ ExtIdle /\ ClIdle /\ KpIdle
  /\ d_in \in DwRoots
  /\ d_pos = 0
  /\ d_i = 0
  /\ dw = <<>>
  /\ tau = <<>>
  /\ min_value = <<>>
  /\ d_warned = FALSE
  /\ d_ret = <<>>
  /\ d_pc = "start"

\* Lines 256-266: fit, take the roots, allocate the three arrays.
DwSetup ==
  /\ d_pc = "start"
  /\ dw' = [k \in 1 .. n_min |-> NaNBound]
  /\ tau' = [k \in 1 .. n_min |-> NaNBound]
  /\ min_value' = [k \in 1 .. n_min |-> PosInf]
  /\ d_i' = 0
  /\ d_pos' = 0
  /\ d_pc' = IF d_in = <<>> THEN "select" ELSE "loop"
  /\ UNCHANGED <<d_in, d_warned, d_ret>>
  /\ UNCHANGED <<vars, valVars, acVars, msdVars, extVars, clVars, kpVars>>

\* Lines 267-274: one pass of the loop over the roots.
DwLoop ==
  /\ d_pc = "loop"
  /\ LET root == d_in[d_pos + 1]
     IN  /\ IF is_caging(root)
            THEN /\ tau' = [tau EXCEPT ![d_i + 1] = Pow10(root.x)]
                 /\ dw' = [dw EXCEPT ![d_i + 1] = Pow10(root.y)]
                 /\ min_value' = [min_value EXCEPT ![d_i + 1] = Num(root.d1)]
                 /\ d_i' = d_i + 1
            ELSE UNCHANGED <<tau, dw, min_value, d_i>>
         /\ d_pos' = d_pos + 1
         /\ d_pc' = IF d_i' = n_min \/ d_pos' = Len(d_in) THEN "select"
                    ELSE "loop"
  /\ UNCHANGED <<d_in, d_warned, d_ret>>
  /\ UNCHANGED <<vars, valVars, acVars, msdVars, extVars, clVars, kpVars>>

\* Lines 276-283 and 320: pick the deepest candidate, warn, return.
DwSelect ==
  /\ d_pc = "select"
  /\ LET ind_min == first_where_equal(min_value, np_min(min_value))
     IN  /\ min_value' = min_value[ind_min]
         /\ dw' = dw[ind_min]
         /\ tau' = tau[ind_min]
         /\ d_warned' = (dw[ind_min] = NaNBound)
         /\ d_ret' = <<dw[ind_min], tau[ind_min]>>
  /\ d_pc' = "done"
  /\ UNCHANGED <<d_in, d_pos, d_i>>
  /\ UNCHANGED <<vars, valVars, acVars, msdVars, extVars, clVars, kpVars>>

DwNext == DwSetup \/ DwLoop \/ DwSelect

SpecDebyeWaller == DwInit /\ [][DwNext]_allVars

\* The positions of the roots with a positive third derivative, and those
\* among them that are within the first n_min such roots.
DwCandidates == {k \in 1 .. Len(d_in) : d_in[k].d3 > 0}
DwCapped ==
  {k \in DwCandidates :
     Cardinality({j \in DwCandidates : j <= k}) <= n_min}
DwDeepest ==
  CHOOSE k \in DwCapped :
    \A j \in DwCapped :
      \/ d_in[k].d1 < d_in[j].d1
      \/ (d_in[k].d1 = d_in[j].d1 /\ k <= j)

\* C22: when some root has a positive third derivative, the call returns
\* tau = 10^x and dw = 10^spline(x) of the root with the smallest slope among
\* the first n_min such roots, the one at the smallest location on a tie.
C22_Selection ==
  (d_pc = "done" /\ DwCandidates # {}) =>
    /\ d_ret[1] = Pow10(d_in[DwDeepest].y)
    /\ d_ret[2] = Pow10(d_in[DwDeepest].x)

\* C22 witness: a returned call on more than n_min qualifying roots whose
\* smallest slope lies beyond the cap.
C22_Witness ==
  /\ d_pc = "done"
  /\ Cardinality(DwCandidates) > n_min
  /\ \E k \in DwCandidates \ DwCapped :
       \A j \in DwCapped : d_in[k].d1 < d_in[j].d1

\* C23: when no root has a positive third derivative the call returns
\* (NaN, NaN) and warns; and the warning is given exactly when the returned
\* dw is NaN.
C23_NoCaging ==
  d_pc = "done" =>
    /\ DwCandidates = {} =>
         (d_ret = <<NaNBound, NaNBound>> /\ d_warned)
    /\ d_warned <=> d_ret[1] = NaNBound
    /\ d_warned <=> DwCandidates = {}

\* C23 witness: a returned call on two roots, one with a zero and one with a
\* negative third derivative.
C23_Witness ==
  /\ d_pc = "done"
  /\ Len(d_in) = 2
  /\ d_in[1].d3 = 0 /\ d_in[2].d3 < 0
  /\ d_warned


\* ==================================================== analyze_clustering
\* md_spa/cluster.py, analyze_clustering(cluster_array, ncut, show_plot).
\* Cluster ids are floats that hold whole numbers, or NaN.
ClIds == {NaN, R(0), R(1), R(2)}
ClFrameCounts == {0, 1, 2}
ClParticleCounts == {0, 1, 2, 3}
ClOtherShapes == {<<>>, <<3>>, <<2, 2, 2>>}
ClCuts == {0, 1, 2}
ClArrays ==
  UNION {{[shape |-> <<n, m>>, frames |-> f] :
            f \in [1 .. n -> [1 .. m -> ClIds]]} :
         n \in ClFrameCounts, m \in ClParticleCounts}
  \cup {[shape |-> sh, frames |-> <<>>] : sh \in ClOtherShapes}
ClArgs ==
  {[cluster_array |-> a, ncut |-> c, show_plot |-> sp] :
     a \in ClArrays, c \in ClCuts, sp \in BOOLEAN}

\* Line 117: int(np.nanmax(cluster_array)).  np.nanmax of an array without
\* entries raises ValueError; of an all-NaN array it is NaN, which int()
\* rejects with ValueError.
ClEntries(a) ==
  UNION {{a.frames[i][k] : k \in 1 .. Len(a.frames[i])} :
         i \in 1 .. Len(a.frames)}
int_nanmax(a) ==
  LET vals == {v \in ClEntries(a) : ~isnan(v)}
  IN  IF vals = {} THEN [err |-> "ValueError", val |-> 0]
      ELSE [err |-> "none",
            val |-> (CHOOSE v \in vals : \A u \in vals : Le(u, v))[1]]

\* Line 121: np.sum([x==y for x in tmp]) for y in range(1, nclusters+1).
RECURSIVE count_equal(_, _)
count_equal(tmp, y) ==
  IF tmp = <<>> THEN 0
  ELSE (IF Head(tmp) = R(y) THEN 1 ELSE 0) + count_equal(Tail(tmp), y)
clusters_of(tmp, n) == [y \in 1 .. n |-> count_equal(tmp, y)]

\* Mutant of below_cut: a cluster of ncut + 1 particles counts as small.
below_cut_inclusive(cl, ncut) ==
  SumSeq(SelectSeq(cl, LAMBDA c : c <= ncut + 1 /\ c > 0))

\* Line 122: the sum of the sizes that are below ncut + 1 and above 0.
below_cut(cl, ncut) ==
  SumSeq(SelectSeq(cl, LAMBDA c : c < ncut + 1 /\ c > 0))

\* Line 123: clusters[np.where(clusters > ncut)].
above_cut(cl, ncut) == SelectSeq(cl, LAMBDA c : c > ncut)

\* Lines 127-130: a zero matrix as wide as the longest list, each row
\* overwritten from the left.
MaxOf(S) == CHOOSE x \in S : \A y \in S : y <= x
zero_padded(list) ==
  LET lx == MaxOf({Len(list[i]) : i \in 1 .. Len(list)})
  IN  [i \in 1 .. Len(list) |->
         [k \in 1 .. lx |-> IF k <= Len(list[i]) THEN list[i][k] ELSE 0]]

ClInit ==
  /\ FdIdle /\ ValIdle /\ AcIdle /\ MsdIdle /\ ExtIdle /\ DwIdle /\ KpIdle
  /\ c_in \in ClArgs
  /\ c_i = 0
  /\ nclusters = 0
  /\ clusters = <<>>
  /\ c_nparticles = <<>>
  /\ cluster_list = <<>>
  /\ c_ret = <<>>
  /\ c_pc = "start"
  /\ c_err = "none"

\* Lines 114-119: the shape check, the largest id, the empty results.
ClSetup ==
  /\ c_pc = "start"
  /\ IF Len(c_in.cluster_array.shape) # 2
        \/ int_nanmax(c_in.cluster_array).err # "none"
     THEN /\ c_pc' = "error"
          /\ c_err' = "ValueError"
          /\ UNCHANGED <<nclusters, c_nparticles>>
     ELSE /\ nclusters' = int_nanmax(c_in.cluster_array).val
          /\ c_nparticles' = [i \in 1 .. Len(c_in.cluster_array.frames) |-> 0]
          /\ c_pc' = "frames"
          /\ UNCHANGED c_err
  /\ c_i' = 0
  /\ cluster_list' = <<>>
  /\ UNCHANGED <<c_in, clusters, c_ret>>
  /\ UNCHANGED <<vars, valVars, acVars, msdVars, extVars, dwVars, kpVars>>

\* Lines 120-123: one frame of the loop.
ClFrame ==
  /\ c_pc = "frames"
  /\ c_i < Len(c_in.cluster_array.frames)
  /\ LET tmp == c_in.cluster_array.frames[c_i + 1]
         cl  == clusters_of(tmp, nclusters)
     IN  /\ clusters' = cl
         /\ c_nparticles' =
              [c_nparticles EXCEPT ![c_i + 1] = below_cut(cl, c_in.ncut)]
         /\ cluster_list' = Append(cluster_list, above_cut(cl, c_in.ncut))
  /\ c_i' = c_i + 1
  /\ UNCHANGED <<c_in, nclusters, c_ret, c_pc, c_err>>
  /\ UNCHANGED <<vars, valVars, acVars, msdVars, extVars, dwVars, kpVars>>

\* Lines 127-145: pad the lists into a matrix, plot when asked, return.
\* With show_plot, line 141 takes np.max(clusters), which raises ValueError
\* when the size array of the last frame is empty.
ClReturn ==
  /\ c_pc = "frames"
  /\ c_i = Len(c_in.cluster_array.frames)
  /\ IF c_in.show_plot /\ clusters = <<>>
     THEN /\ c_pc' = "error"
          /\ c_err' = "ValueError"
          /\ UNCHANGED c_ret
     ELSE /\ c_pc' = "done"
          /\ c_ret' = <<zero_padded(cluster_list), c_nparticles>>
          /\ UNCHANGED c_err
  /\ UNCHANGED <<c_in, c_i, nclusters, clusters, c_nparticles, cluster_list>>
  /\ UNCHANGED <<vars, valVars, acVars, msdVars, extVars, dwVars, kpVars>>

ClNext == ClSetup \/ ClFrame \/ ClReturn

SpecClustering == ClInit /\ [][ClNext]_allVars

\* What the statement below speaks about: the frames handed in, the ids that
\* count as clusters, and the size of a cluster in a frame.
ClFrames == c_in.cluster_array.frames
ClMaxId ==
  MaxOf({v[1] : v \in {u \in ClEntries(c_in.cluster_array) : ~isnan(u)}})
ClusterIds == 1 .. ClMaxId
SizeIn(i, y) ==
  Cardinality({k \in 1 .. Len(ClFrames[i]) : ClFrames[i][k] = R(y)})
InCluster(i, k) == \E y \in ClusterIds : ClFrames[i][k] = R(y)
SmallMembers(i) ==
  {k \in 1 .. Len(ClFrames[i]) :
     /\ InCluster(i, k)
     /\ SizeIn(i, ClFrames[i][k][1]) \in 1 .. c_in.ncut}
LargeIds(i) == {y \in ClusterIds : SizeIn(i, y) > c_in.ncut}
RowHoldsLarge(row, i) ==
  /\ Len(row) >= Cardinality(LargeIds(i))
  /\ \A k \in 1 .. Len(row) :
       IF k <= Cardinality(LargeIds(i))
       THEN \E y \in LargeIds(i) :
              /\ Cardinality({z \in LargeIds(i) : z <= y}) = k
              /\ row[k] = SizeIn(i, y)
       ELSE row[k] = 0

\* C25: when analyze_clustering returns, for every frame i nparticles[i] is
\* the number of particles in clusters of size 1..ncut, row i of the returned
\* matrix holds the sizes of the clusters larger than ncut followed by zeros,
\* and nparticles[i] plus the sum of row i is the number of particles with a
\* cluster id in 1..max id; an input that is not 2-D raises ValueError.
C25_ClusterCounts ==
  /\ c_pc = "done" =>
       \A i \in 1 .. Len(ClFrames) :
         /\ c_ret[2][i] = Cardinality(SmallMembers(i))
         /\ RowHoldsLarge(c_ret[1][i], i)
         /\ c_ret[2][i] + SumSeq(c_ret[1][i]) =
              Cardinality({k \in 1 .. Len(ClFrames[i]) : InCluster(i, k)})
  /\ (c_pc \notin {"idle", "start"}
        /\ Len(c_in.cluster_array.shape) # 2) =>
       (c_pc = "error" /\ c_err = "ValueError")

\* C25 witness: a returned call with a frame that has both a small and a
\* large cluster, and a frame whose row is padded.
C25_Witness ==
  /\ c_pc = "done"
  /\ \E i \in 1 .. Len(ClFrames) :
       /\ c_ret[2][i] > 0
       /\ LargeIds(i) # {}
  /\ \E i \in 1 .. Len(ClFrames) :
       Cardinality(LargeIds(i)) < Len(c_ret[1][i])


\* ========================================================= keypoints2csv
\* md_spa/msd.py, keypoints2csv.  A keyword dictionary is the set of its keys
\* and the values under "bounds" and "title" (defaults under absent keys).
\* A csv cell is a string: a text as it is, a number by the name of the
\* value it holds.  An optional list argument is an object with the flag
\* given (False for None), ndim and data.
Dict(keys, bounds, title) ==
  [keys |-> keys, bounds |-> bounds, title |-> title]
NoBounds == <<None, None>>
KpBounds ==
  {<<None, None>>, <<None, Num(9)>>, <<Num(1), None>>, <<Num(1), Num(9)>>}
KpDiffKwargs ==
  {Dict({}, NoBounds, ""), Dict({"title"}, NoBounds, "mine")}
  \cup {Dict({"bounds"}, b, "") : b \in KpBounds}
KpDwKwargs == {Dict({}, NoBounds, ""), Dict({"title"}, NoBounds, "mine")}
KpTaus == {NaNBound, Num(2)}
KpColumnCounts == {1, 2, 3}
KpTitleNames == <<"time", "A", "B", "C">>
KpListLens == {0, 1, 2}
KpNotGiven == [given |-> FALSE, ndim |-> 0, data |-> <<>>]
KpOptionalLists ==
  {KpNotGiven, [given |-> TRUE, ndim |-> 0, data |-> <<"x">>]}
  \cup {[given |-> TRUE, ndim |-> 1, data |-> [k \in 1 .. n |-> "x"]] :
          n \in KpListLens}
KpModes == {"a", "w"}
KpArgs ==
  {[found |-> TRUE, ncol |-> n, ntitles |-> nt, taus |-> ts,
    additional_entries |-> ae, additional_header |-> ah,
    kwargs_find_diffusivity |-> kd, kwargs_debye_waller |-> kw,
    fileout_exists |-> fe, mode |-> md] :
     n \in KpColumnCounts, nt \in KpColumnCounts,
     ts \in [1 .. 2 -> KpTaus],
     ae \in KpOptionalLists, ah \in KpOptionalLists,
     kd \in KpDiffKwargs, kw \in KpDwKwargs,
     fe \in BOOLEAN, md \in KpModes}
  \cup
  {[found |-> FALSE, ncol |-> 2, ntitles |-> 2, taus |-> <<NaNBound, NaNBound>>,
    additional_entries |-> KpNotGiven, additional_header |-> KpNotGiven,
    kwargs_find_diffusivity |-> Dict({}, NoBounds, ""),
    kwargs_debye_waller |-> Dict({}, NoBounds, ""),
    fileout_exists |-> FALSE, mode |-> "a"]}

\* Line 103.
file_headers ==
  <<"Group", "DW [l-unit^2]", "tau [t-unit]", "Best D [l-unit^2 / t-unit]",
    "B D SE", "B t_bound1 [t-unit]", "B t_bound2 [t-unit]", "B Exponent",
    "B Intercept [l-unit^2]", "B Npts", "Longest D [l-unit^2/t-unit]",
    "L D SE", "L t_bound1 [t-unit]", "L t_bound2 [t-unit]", "L Exponent",
    "L Intercept [l-unit^2]", "L Npts">>

\* list(best) and list(longest): the seven values of a region record.
KpBestCells == <<"b0", "b1", "b2", "b3", "b4", "b5", "b6">>
KpLongestCells == <<"l0", "l1", "l2", "l3", "l4", "l5", "l6">>

\* Lines 90-93: the title is filled into a copy unless the caller gave one.
with_title(d, title) ==
  IF "title" \notin d.keys
  THEN Dict(d.keys \cup {"title"}, d.bounds, title)
  ELSE d

\* Line 95, left operand of the final and: "bounds" not in the dictionary,
\* or bounds[0] is not None, or np.isnan(bounds[0]); np.isnan(None) raises
\* TypeError.
lower_test(d) ==
  IF "bounds" \notin d.keys THEN "True"
  ELSE IF d.bounds[1] # None THEN "True"
  ELSE "TypeError"

\* Lines 96-99.
TenTimes(t) == Num(10 * t.val)
with_lower(d, t) ==
  IF "bounds" \notin d.keys
  THEN Dict(d.keys \cup {"bounds"}, <<TenTimes(t), None>>, d.title)
  ELSE Dict(d.keys, <<TenTimes(t), d.bounds[2]>>, d.title)

\* Line 101.
row_of(entries, title) ==
  entries \o <<title>> \o <<"dw", "tau">> \o KpBestCells \o KpLongestCells

KpInit ==
  /\ FdIdle /\ ValIdle /\ AcIdle /\ MsdIdle /\ ExtIdle /\ DwIdle /\ ClIdle
  /\ k_in \in KpArgs
  /\ titles = <<>>
  /\ additional_entries = k_in.additional_entries
  /\ additional_header = k_in.additional_header
  /\ flag_add_ent = FALSE
  /\ flag_add_header = FALSE
  /\ kwargs_find_diffusivity = k_in.kwargs_find_diffusivity
  /\ kwargs_debye_waller = k_in.kwargs_debye_waller
  /\ k_i = 0
  /\ k_calls = <<>>
  /\ tmp_data = <<>>
  /\ k_written = <<>>
  /\ k_pc = "start"
  /\ k_err = "none"

\* Lines 53-61: the input file, the table, the titles.
KpOpen ==
  /\ k_pc = "start"
  /\ IF ~k_in.found \/ k_in.ntitles # k_in.ncol
     THEN /\ k_pc' = "error"
          /\ k_err' = "ValueError"
          /\ UNCHANGED titles
     ELSE /\ titles' = SubSeq(KpTitleNames, 1, k_in.ntitles)
          /\ k_pc' = "flags"
          /\ UNCHANGED k_err
  /\ UNCHANGED <<k_in, additional_entries, additional_header, flag_add_ent,
                 flag_add_header, kwargs_find_diffusivity,
                 kwargs_debye_waller, k_i, k_calls, tmp_data, k_written>>
  /\ UNCHANGED <<vars, valVars, acVars, msdVars, extVars, dwVars, clVars>>

\* Lines 63-83: the two flags, the default header, the length check.
KpFlags ==
  /\ k_pc = "flags"
  /\ LET ent == additional_entries.given
         hdr == additional_header.given
     IN  IF \/ ent /\ ~isiterable(additional_entries)
            \/ hdr /\ ~isiterable(additional_header)
            \/ /\ ent /\ hdr
               /\ Len(additional_entries.data) # Len(additional_header.data)
         THEN /\ k_pc' = "error"
              /\ k_err' = "ValueError"
              /\ UNCHANGED <<additional_entries, additional_header,
                             flag_add_ent, flag_add_header>>
         ELSE /\ flag_add_ent' = ent
              /\ additional_entries' =
                   IF ent THEN additional_entries
                   ELSE [given |-> TRUE, ndim |-> 1, data |-> <<>>]
              /\ additional_header' =
                   IF ent /\ ~hdr
                   THEN [given |-> TRUE, ndim |-> 1,
                         data |-> [k \in 1 .. Len(additional_entries.data)
                                     |-> "-"]]
                   ELSE additional_header
              /\ flag_add_header' = (hdr \/ ent)
              /\ k_pc' = "columns"
              /\ UNCHANGED k_err
  /\ k_i' = 0
  /\ tmp_data' = <<>>
  /\ UNCHANGED <<k_in, titles, kwargs_find_diffusivity, kwargs_debye_waller,
                 k_calls, k_written>>
  /\ UNCHANGED <<vars, valVars, acVars, msdVars, extVars, dwVars, clVars>>

\* Lines 87-101: one pass of the loop over the data columns, i = k_i + 1 in
\* range(1, len(data)).  debye_waller hands back the tau of the column.
KpColumn ==
  /\ k_pc = "columns"
  /\ k_i + 1 < k_in.ncol
  /\ LET i               == k_i + 1
         tmp_kwargs_dw   == with_title(kwargs_debye_waller, titles[i + 1])
         tmp_kwargs_diff == with_title(kwargs_find_diffusivity, titles[i + 1])
         t               == k_in.taus[i]
         dw_call         == [fn |-> "debye_waller", column |-> i,
                             kwargs |-> tmp_kwargs_dw]
     IN  IF lower_test(tmp_kwargs_diff) = "TypeError"
         THEN /\ k_calls' = Append(k_calls, dw_call)
              /\ k_pc' = "error"
              /\ k_err' = "TypeError"
              /\ UNCHANGED <<k_i, tmp_data>>
         ELSE LET passed == IF t # NaNBound
                            THEN with_lower(tmp_kwargs_diff, t)
                            ELSE tmp_kwargs_diff
              IN  /\ k_calls' =
                       k_calls \o
                       <<dw_call,
                         [fn |-> "find_diffusivity", column |-> i,
                          kwargs |-> passed]>>
                  /\ tmp_data' =
                       Append(tmp_data,
                              row_of(additional_entries.data, titles[i + 1]))
                  /\ k_i' = i
                  /\ UNCHANGED <<k_pc, k_err>>
  /\ UNCHANGED <<k_in, titles, additional_entries, additional_header,
                 flag_add_ent, flag_add_header, kwargs_find_diffusivity,
                 kwargs_debye_waller, k_written>>
  /\ UNCHANGED <<vars, valVars, acVars, msdVars, extVars, dwVars, clVars>>

\* Lines 103-109: the header row is handed to fm.write_csv for a new file
\* or in mode "w".
KpWrite ==
  /\ k_pc = "columns"
  /\ k_i + 1 >= k_in.ncol
  /\ k_written' =
       IF ~k_in.fileout_exists \/ k_in.mode = "w"
       THEN [with_header |-> TRUE,
             header |-> IF flag_add_header
                        THEN additional_header.data \o file_headers
                        ELSE file_headers,
             rows |-> tmp_data]
       ELSE [with_header |-> FALSE, header |-> <<>>, rows |-> tmp_data]
  /\ k_pc' = "done"
  /\ UNCHANGED <<k_in, titles, additional_entries, additional_header,
                 flag_add_ent, flag_add_header, kwargs_find_diffusivity,
                 kwargs_debye_waller, k_i, k_calls, tmp_data, k_err>>
  /\ UNCHANGED <<vars, valVars, acVars, msdVars, extVars, dwVars, clVars>>

KpNext == KpOpen \/ KpFlags \/ KpColumn \/ KpWrite

SpecKeypoints == KpInit /\ [][KpNext]_allVars


\* What the statements below speak about: the calls made for a data column
\* and the keywords the caller handed in.
CallsFor(i) == {j \in 1 .. Len(k_calls) : k_calls[j].column = i}
CallerKw == k_in.kwargs_find_diffusivity
CallerHasLower == "bounds" \in CallerKw.keys /\ Given(CallerKw.bounds[1])
ColumnsDone == k_pc \in {"done"}

\* C26: for every data column debye_waller is called first and
\* find_diffusivity second; find_diffusivity gets the lower bound 10*tau when
\* tau is not NaN and the caller gave no lower bound, and the caller's own
\* bounds in every other case; the caller's dictionaries stay as they were.
C26_Pipeline ==
  /\ k_err # "TypeError"
  /\ k_pc \notin {"idle", "start"} =>
       /\ kwargs_find_diffusivity = k_in.kwargs_find_diffusivity
       /\ kwargs_debye_waller = k_in.kwargs_debye_waller
  /\ \A j \in 1 .. Len(k_calls) :
       /\ k_calls[j].fn =
            (IF j % 2 = 1 THEN "debye_waller" ELSE "find_diffusivity")
       /\ k_calls[j].column = (j + 1) \div 2
  /\ ColumnsDone => Len(k_calls) = 2 * (k_in.ncol - 1)
  /\ \A j \in 1 .. Len(k_calls) :
       k_calls[j].fn = "find_diffusivity" =>
         LET kw == k_calls[j].kwargs
             t  == k_in.taus[k_calls[j].column]
         IN  IF t # NaNBound /\ ~CallerHasLower
             THEN /\ "bounds" \in kw.keys
                  /\ kw.bounds = <<TenTimes(t),
                                   IF "bounds" \in CallerKw.keys
                                   THEN CallerKw.bounds[2] ELSE None>>
             ELSE /\ ("bounds" \in kw.keys) = ("bounds" \in CallerKw.keys)
                  /\ kw.bounds = CallerKw.bounds

\* C29: every row handed to the csv writer has as many fields as the header
\* row written with it, 17 plus the number of additional columns; entries
\* and header of unequal length are rejected with ValueError.
AdditionalColumns ==
  IF k_in.additional_entries.given THEN Len(k_in.additional_entries.data)
  ELSE IF k_in.additional_header.given THEN Len(k_in.additional_header.data)
  ELSE 0
C29_RowsMatchHeader ==
  /\ (k_pc = "done" /\ k_written.with_header) =>
       /\ Len(k_written.header) = 17 + AdditionalColumns
       /\ \A r \in 1 .. Len(k_written.rows) :
            Len(k_written.rows[r]) = Len(k_written.header)
  /\ (/\ k_pc \notin {"idle", "start", "flags"}
      /\ k_in.additional_entries.given /\ k_in.additional_header.given
      /\ isiterable(k_in.additional_entries)
      /\ isiterable(k_in.additional_header)
      /\ Len(k_in.additional_entries.data) #
           Len(k_in.additional_header.data)) =>
       (k_pc = "error" /\ k_err = "ValueError")

====
